---- MODULE Spec2Model ----
(***************************************************************************)
(* Hybrid retriever of the RAG chatbot (src/rag/retriever.py) with its     *)
(* result cache, the keyword extraction of the store adapter               *)
(* (src/database/supabase_client.py) and the /chat handler with its        *)
(* citation curation (src/api/main.py).                                    *)
(*                                                                         *)
(* Seven specifications share the definitions below:                       *)
(*   Spec       concurrent retrieve calls on the one shared Retriever      *)
(*   SeqSpec    one caller, calls strictly one after the other             *)
(*   FanSpec    one cache-miss call, fan-out / fan-in step by step, and    *)
(*              the cache hits that follow it                              *)
(*   MergeSpec  merge, rank and truncate applied to arbitrary branch lists *)
(*   KwSpec     _extract_keywords applied to every short query string      *)
(*   ChatSpec   one /chat request, from chat_endpoint to the last chunk    *)
(*   CurateSpec the citation curation of one request whose answer has been *)
(*              streamed                                                   *)
(***************************************************************************)
EXTENDS Integers, Sequences, FiniteSets, TLC

(***************************************************************************)
(* Bounds and scaled program constants.                                    *)
(***************************************************************************)
\* settings.py:40 sets 128; scaled so that a full cache is reachable.
RESULT_CACHE_SIZE == 2
\* settings.py:41 sets 300 seconds; here in clock ticks.
RESULT_CACHE_TTL_SECONDS == 2
\* settings.py:27 sets 5; scaled so that MaxInputDocs documents can exceed it.
MAX_CONTEXT_DOCS == 2
\* settings.py:26 sets 6000 characters; here in units of 1000 characters.
MAX_CONTEXT_CHARS == 6
\* retriever.py:67 passes timeout=8 seconds; here in clock ticks.
FUTURE_TIMEOUT == 1
\* the clock stops at MaxTime
MaxTime == 2
\* number of distinct query strings
NumQueries == 3
\* total number of documents the four branches return (MergeSpec)
MaxInputDocs == 3
\* length of the query strings keywords are extracted from (KwSpec)
MaxQueryLen == 5
\* api/main.py:229 sets MAX_YT = 5; scaled so that the supplements can fill it
MAX_YT == 2
\* number of context documents curation reads (CurateSpec)
MaxContextLen == 2
\* number of rows the category query returns
MaxCategoryRows == 2
\* number of documents one keyword search of the supplement returns
MaxKeywordResults == 1
\* settings.py:22 sets 0.40; here in tenths
SIMILARITY_THRESHOLD == 4
\* retriever.py:32 gives k the default 5; scaled like MAX_CONTEXT_DOCS
K_DEFAULT == 2

Queries == 1..NumQueries
\* the values of retrieve's argument k
Ks == 1..K_DEFAULT
T1 == "t1"
T2 == "t2"
Threads == {T1, T2}

\* the four search branches, by the labels of retriever.py:44-61
Labels == {"docs_vector", "faqs_vector", "youtube_kw", "general_kw"}

(***************************************************************************)
(* Documents.  id 0 stands for a missing (or falsy) id; content is a       *)
(* content code with a length; similarity is in tenths; src is the branch  *)
(* whose result list holds the object.                                     *)
(***************************************************************************)
DocIds == {0, 1}
Contents == {1, 2}
Sims == {6, 9}

ContentLen(c) == IF c = 1 THEN 1 ELSE 4

\* hash(content): distinct contents hash apart, away from the store's ids
Hash(c) == 100 + c

Docs(l) == [id : DocIds, content : Contents, similarity : Sims, src : {l}]

\* doc.get('id') or hash(doc.get('content', ''))
DocId(doc) == IF doc.id # 0 THEN doc.id ELSE Hash(doc.content)

(***************************************************************************)
(* Merge (retriever.py:82-91).  merged_docs is a dict: a sequence in       *)
(* insertion order; replacing a value keeps the key's position.            *)
(***************************************************************************)
KeyIndex(merged, k) ==
    IF \E i \in 1..Len(merged) : DocId(merged[i]) = k
    THEN CHOOSE i \in 1..Len(merged) : DocId(merged[i]) = k
    ELSE 0

\* mutants of the comparison of line 90
ReplacesLower(doc, existing) == doc.similarity < existing.similarity

ReplacesOnTie(doc, existing) == doc.similarity >= existing.similarity

\* doc.get('similarity', 0) > existing.get('similarity', 0)
Replaces(doc, existing) == doc.similarity > existing.similarity

\* mutant of line 91: the replacing document goes to the end
MergeDocMovesToEnd(merged, doc) ==
    LET i == KeyIndex(merged, DocId(doc)) IN
    IF i = 0 THEN Append(merged, doc)
    ELSE IF Replaces(doc, merged[i])
         THEN Append(SubSeq(merged, 1, i - 1) \o SubSeq(merged, i + 1, Len(merged)),
                     doc)
    ELSE merged

MergeDoc(merged, doc) ==
    LET i == KeyIndex(merged, DocId(doc)) IN
    IF i = 0 THEN Append(merged, doc)
    ELSE IF Replaces(doc, merged[i]) THEN [merged EXCEPT ![i] = doc]
    ELSE merged

RECURSIVE MergeList(_, _)
MergeList(merged, source_list) ==
    IF source_list = <<>> THEN merged
    ELSE MergeList(MergeDoc(merged, Head(source_list)), Tail(source_list))

\* for source_list in [faqs_vector, youtube_kw, docs_vector, general_kw]
SourceOrder == <<"faqs_vector", "youtube_kw", "docs_vector", "general_kw">>

RECURSIVE MergeFrom(_, _, _)
MergeFrom(merged, sr, n) ==
    IF n > Len(SourceOrder) THEN merged
    ELSE MergeFrom(MergeList(merged, sr[SourceOrder[n]]), sr, n + 1)

MergeAll(sr) == MergeFrom(<<>>, sr, 1)

(***************************************************************************)
(* Rank (retriever.py:94): sorted(..., reverse=True) is stable.            *)
(***************************************************************************)
RECURSIVE InsertRanked(_, _)
InsertRanked(s, d) ==
    IF s = <<>> THEN <<d>>
    ELSE IF Head(s).similarity >= d.similarity
         THEN <<Head(s)>> \o InsertRanked(Tail(s), d)
         ELSE <<d>> \o s

RECURSIVE Sorted(_)
Sorted(s) ==
    IF s = <<>> THEN <<>>
    ELSE InsertRanked(Sorted(SubSeq(s, 1, Len(s) - 1)), s[Len(s)])

(***************************************************************************)
(* Truncate (retriever.py:97-106).                                         *)
(***************************************************************************)
RECURSIVE SumLen(_)
SumLen(s) == IF s = <<>> THEN 0 ELSE ContentLen(Head(s).content) + SumLen(Tail(s))

OverBudget(total_chars, doc) ==
    total_chars + ContentLen(doc.content) > MAX_CONTEXT_CHARS

\* mutant of the test of line 103
AtDocCapLate(final) == Len(final) > MAX_CONTEXT_DOCS

\* len(final_results) >= MAX_CONTEXT_DOCS
AtDocCap(final) == Len(final) >= MAX_CONTEXT_DOCS

\* mutant of the breaks of lines 102 and 104: a document that does not fit
\* is passed over and the walk goes on
RECURSIVE TruncateSkipping(_, _, _)
TruncateSkipping(final, total_chars, rest) ==
    IF rest = <<>> THEN final
    ELSE IF OverBudget(total_chars, Head(rest)) \/ AtDocCap(final)
         THEN TruncateSkipping(final, total_chars, Tail(rest))
    ELSE TruncateSkipping(Append(final, Head(rest)),
                          total_chars + ContentLen(Head(rest).content),
                          Tail(rest))

RECURSIVE TruncateFrom(_, _, _)
TruncateFrom(final, total_chars, rest) ==
    IF rest = <<>> THEN final
    ELSE IF OverBudget(total_chars, Head(rest)) THEN final
    ELSE IF AtDocCap(final) THEN final
    ELSE TruncateFrom(Append(final, Head(rest)),
                      total_chars + ContentLen(Head(rest).content),
                      Tail(rest))

Truncate(ranked) == TruncateFrom(<<>>, 0, ranked)

\* lines 82-106 as one function of the four branch lists
Pipeline(sr) == Truncate(Sorted(MergeAll(sr)))

(***************************************************************************)
(* The result cache (self._cache): a dict, kept as the sequence of its     *)
(* items in insertion order.                                               *)
(***************************************************************************)
\* what dict.get returns for a missing key
NoEntry == [results |-> <<>>, timestamp |-> -1]

CacheKeys(c) == {c[i].key : i \in 1..Len(c)}

CacheIndex(c, k) == CHOOSE i \in 1..Len(c) : c[i].key = k

\* self._cache.get(key)
CacheGet(c, k) ==
    IF k \in CacheKeys(c)
    THEN [results |-> c[CacheIndex(c, k)].results,
          timestamp |-> c[CacheIndex(c, k)].timestamp]
    ELSE NoEntry

\* del self._cache[key], for a key that is present
CacheDel(c, k) ==
    LET i == CacheIndex(c, k) IN SubSeq(c, 1, i - 1) \o SubSeq(c, i + 1, Len(c))

\* self._cache[key] = {...}: a present key keeps its position
CachePut(c, k, res, ts) ==
    LET e == [key |-> k, results |-> res, timestamp |-> ts] IN
    IF k \in CacheKeys(c) THEN [c EXCEPT ![CacheIndex(c, k)] = e]
    ELSE Append(c, e)

\* mutant of line 28: max for min
NewestKey(c) ==
    LET i == CHOOSE i \in 1..Len(c) :
                 /\ \A j \in 1..Len(c) : c[i].timestamp >= c[j].timestamp
                 /\ \A j \in 1..(i - 1) : c[j].timestamp < c[i].timestamp
    IN c[i].key

\* min(self._cache, key=timestamp): the first key with the least timestamp
OldestKey(c) ==
    LET i == CHOOSE i \in 1..Len(c) :
                 /\ \A j \in 1..Len(c) : c[i].timestamp <= c[j].timestamp
                 /\ \A j \in 1..(i - 1) : c[j].timestamp > c[i].timestamp
    IN c[i].key

\* mutants of the comparison of line 20
FreshFlipped(e, t) == (t - e.timestamp) > RESULT_CACHE_TTL_SECONDS

FreshInclusive(e, t) == (t - e.timestamp) <= RESULT_CACHE_TTL_SECONDS

\* (time.time() - entry["timestamp"]) < RESULT_CACHE_TTL_SECONDS
Fresh(e, t) == (t - e.timestamp) < RESULT_CACHE_TTL_SECONDS

\* len(self._cache) >= RESULT_CACHE_SIZE
CacheFull(c) == Len(c) >= RESULT_CACHE_SIZE

(***************************************************************************)
(* Keyword extraction (database/supabase_client.py:140-198).  A string is  *)
(* the sequence of its characters.  "a" and "b" stand for characters of    *)
(* content words, "s" and "p" for one-character stopwords, "p" being a     *)
(* particle as well; "?" for the punctuation line 177 removes.             *)
(***************************************************************************)
\* the characters query strings are drawn from (KwSpec)
QueryChars == {"a", "s", "p", "?", " "}

\* all query strings of at most MaxQueryLen characters
QueryTexts == UNION {[1..n -> QueryChars] : n \in 0..MaxQueryLen}

\* _STOPWORDS: one-character words, among them particles, and longer words
STOPWORDS == {<<"s">>, <<"p">>, <<"s", "s">>}

\* _PARTICLES, longer suffixes first
PARTICLES == << <<"s", "p">>, <<"p">> >>

\* the characters replace() deletes at line 177
Punctuation == {"?", "!", "."}

Whitespace == {" "}

\* query_text.replace("?", "").replace("!", "").replace(".", "")
RemovePunctuation(str) == SelectSeq(str, LAMBDA c : c \notin Punctuation)

\* str.split(): the maximal runs of non-whitespace characters, in order
RECURSIVE SplitFrom(_, _, _)
SplitFrom(str, word, acc) ==
    IF str = <<>> THEN (IF word = <<>> THEN acc ELSE Append(acc, word))
    ELSE IF Head(str) \in Whitespace
         THEN SplitFrom(Tail(str), <<>>,
                        IF word = <<>> THEN acc ELSE Append(acc, word))
         ELSE SplitFrom(Tail(str), Append(word, Head(str)), acc)

Split(str) == SplitFrom(str, <<>>, <<>>)

\* line 177
Tokens(str) == Split(RemovePunctuation(str))

\* word.endswith(p)
EndsWith(word, p) ==
    /\ Len(word) >= Len(p)
    /\ SubSeq(word, Len(word) - Len(p) + 1, Len(word)) = p

\* _strip_particles (lines 167-172): the first particle of the list that
\* ends the word and leaves at least two characters is cut off
StripParticles(word) ==
    LET fits == {i \in 1..Len(PARTICLES) :
                    /\ EndsWith(word, PARTICLES[i])
                    /\ Len(word) > Len(PARTICLES[i]) + 1}
    IN IF fits = {} THEN word
       ELSE LET i == CHOOSE i \in fits : \A j \in fits : i <= j
            IN SubSeq(word, 1, Len(word) - Len(PARTICLES[i]))

\* mutant of line 180: stopwords are not discarded
DiscardedShortOnly(w) == Len(w) < 2

\* len(w) < 2 or w in _STOPWORDS (line 180)
Discarded(w) == Len(w) < 2 \/ w \in STOPWORDS

\* lines 179-186, for one token: what it appends to keywords
KeywordsOf(w) ==
    IF Discarded(w) THEN <<>>
    ELSE LET stripped == StripParticles(w) IN
         IF Len(stripped) >= 2 /\ stripped \notin STOPWORDS THEN <<stripped>>
         ELSE IF Len(w) >= 2 THEN <<w>>
         ELSE <<>>

\* lines 178-186
RECURSIVE FilterTokens(_)
FilterTokens(toks) ==
    IF toks = <<>> THEN <<>>
    ELSE KeywordsOf(Head(toks)) \o FilterTokens(Tail(toks))

\* mutant of lines 189-194: no deduplication
NotDeduped(kws) == kws

\* lines 189-194: the first occurrence of each keyword, in order
RECURSIVE Unique(_)
Unique(kws) ==
    IF kws = <<>> THEN <<>>
    ELSE LET front == Unique(SubSeq(kws, 1, Len(kws) - 1))
             last == kws[Len(kws)]
         IN IF \E i \in 1..Len(front) : front[i] = last THEN front
            ELSE Append(front, last)

\* sorted(tokens, key=len, reverse=True): stable, longest first
RECURSIVE InsertByLen(_, _)
InsertByLen(sorted, w) ==
    IF sorted = <<>> THEN <<w>>
    ELSE IF Len(Head(sorted)) >= Len(w)
         THEN <<Head(sorted)>> \o InsertByLen(Tail(sorted), w)
         ELSE <<w>> \o sorted

RECURSIVE SortedByLen(_)
SortedByLen(toks) ==
    IF toks = <<>> THEN <<>>
    ELSE InsertByLen(SortedByLen(SubSeq(toks, 1, Len(toks) - 1)), toks[Len(toks)])

\* lines 196-198: the fallback to the three longest tokens
Fallback(uniq, toks) ==
    IF uniq = <<>> /\ toks # <<>>
    THEN SubSeq(SortedByLen(toks), 1, IF Len(toks) < 3 THEN Len(toks) ELSE 3)
    ELSE uniq

\* _extract_keywords (lines 175-198)
ExtractKeywords(str) == Fallback(Unique(FilterTokens(Tokens(str))), Tokens(str))

(***************************************************************************)
(* Search terms of a /chat request (api/main.py:188-190).                  *)
(***************************************************************************)
\* get_synonyms(kw) of config.medical_synonyms, for a dictionary syn that
\* maps keywords to lists of synonyms
GetSynonyms(syn, kw) == IF kw \in DOMAIN syn THEN syn[kw] ELSE <<>>

\* appends the elements of more that are not yet in expanded
RECURSIVE AppendNew(_, _)
AppendNew(expanded, more) ==
    IF more = <<>> THEN expanded
    ELSE AppendNew(IF \E i \in 1..Len(expanded) : expanded[i] = Head(more)
                   THEN expanded ELSE Append(expanded, Head(more)),
                   Tail(more))

\* _expand_synonyms (supabase_client.py:223-230)
RECURSIVE ExpandSynonymsFrom(_, _, _)
ExpandSynonymsFrom(expanded, kws, syn) ==
    IF kws = <<>> THEN expanded
    ELSE ExpandSynonymsFrom(AppendNew(expanded, GetSynonyms(syn, Head(kws))),
                            Tail(kws), syn)

ExpandSynonyms(kws, syn) == ExpandSynonymsFrom(kws, kws, syn)

\* the character of line 209 that ends the name of a cancer
CancerChar == "m"

\* cancer_base_terms (line 207)
CancerBaseTerms == << <<"m">>, <<"x", "m">> >>

\* line 209: kw.endswith("암") and len(kw) >= 2 and kw != "암"
IsCancerName(kw) == Len(kw) >= 2 /\ kw[Len(kw)] = CancerChar

\* lines 208-212
RECURSIVE AddCancerTerms(_, _)
AddCancerTerms(expanded, kws) ==
    IF kws = <<>> THEN expanded
    ELSE AddCancerTerms(IF IsCancerName(Head(kws))
                        THEN AppendNew(expanded, CancerBaseTerms)
                        ELSE expanded,
                        Tail(kws))

\* lines 215-219, for one keyword: its three-character substrings
SubWords(kw) ==
    IF Len(kw) >= 4
    THEN SelectSeq([i \in 1..(Len(kw) - 2) |-> SubSeq(kw, i, i + 2)],
                   LAMBDA sub : sub \notin STOPWORDS)
    ELSE <<>>

\* lines 214-219
RECURSIVE AddSubWords(_, _)
AddSubWords(expanded, kws) ==
    IF kws = <<>> THEN expanded
    ELSE AddSubWords(AppendNew(expanded, SubWords(Head(kws))), Tail(kws))

\* _expand_compound_keywords (supabase_client.py:201-220)
ExpandCompoundKeywords(kws) == AddSubWords(AddCancerTerms(kws, kws), kws)

\* api/main.py:188-190
SearchKeywords(q, syn) ==
    ExpandCompoundKeywords(ExpandSynonyms(ExtractKeywords(q), syn))

(***************************************************************************)
(* Citation curation (api/main.py:174-312).  A metadata value is a record: *)
(* form says what the store returned (a dict, or a string holding JSON),   *)
(* source and title are the dict's entries ("" and <<>> when absent), and  *)
(* origin names the list the object was read from.                         *)
(***************************************************************************)
\* str.lower() on one character
Lower(c) == IF c = "A" THEN "a" ELSE IF c = "X" THEN "x" ELSE c

\* s.replace(' ', '').lower()
Norm(str) ==
    LET kept == SelectSeq(str, LAMBDA c : c # " ")
    IN [i \in 1..Len(kept) |-> Lower(kept[i])]

\* sub in str
Contains(sub, str) ==
    \E i \in 1..(Len(str) - Len(sub) + 1) :
        SubSeq(str, i, i + Len(sub) - 1) = sub

\* 'youtube.com' in url or 'youtu.be' in url, on the URLs of the model
YoutubeUrls == {"https://youtube.com/watch?v=1", "https://youtu.be/2",
                "https://youtu.be/3"}

\* _is_youtube (lines 180-181)
IsYoutube(url) == url \in YoutubeUrls

\* _parse_meta (lines 174-178): json.loads of a string returns whatever
\* the JSON text denotes; a string that is no JSON gives {}; a value that
\* is neither str nor dict gives {}
ParseMeta(raw) ==
    CASE raw.form = "dict" -> raw
      [] raw.form = "json_object" -> [raw EXCEPT !.form = "dict"]
      [] raw.form = "json_array" -> [raw EXCEPT !.form = "list"]
      [] raw.form = "json_null" -> [raw EXCEPT !.form = "None"]
      [] raw.form = "json_invalid" -> [raw EXCEPT !.form = "empty"]
      [] OTHER -> [raw EXCEPT !.form = "empty"]

\* truth value of a parsed metadata: an empty dict and None are false
Truthy(meta) == meta.form \in {"dict", "list"}

\* meta.get exists
HasGet(meta) == meta.form \in {"dict", "empty"}

\* CATEGORY_EXCLUDE_KEYWORDS (lines 193-196)
CATEGORY_EXCLUDE_KEYWORDS ==
    [cancer |-> << <<"x">> >>, nerve |-> << <<"X", " ", "c">> >>]

\* CATEGORY_EXCLUDE_KEYWORDS.get(final_category, [])
ExcludeKeywords(cat) ==
    IF cat \in DOMAIN CATEGORY_EXCLUDE_KEYWORDS
    THEN CATEGORY_EXCLUDE_KEYWORDS[cat] ELSE <<>>

\* any(kw.lower().replace(' ', '') in title_norm for kw in kws)
MatchesAny(title, kws) ==
    \E i \in 1..Len(kws) : Contains(Norm(kws[i]), Norm(title))

\* mutant of lines 199-204: nothing is excluded
NeverExcluded(title, exclude_kws) == FALSE

\* _is_excluded_video (lines 199-204)
IsExcludedVideo(title, exclude_kws) ==
    exclude_kws # <<>> /\ MatchesAny(title, exclude_kws)

\* mutant of line 212: no URL counts as seen
NeverSeen(source_url, seen) == FALSE

\* line 212: source_url in seen_urls
AlreadySeen(source_url, seen) == source_url \in seen

\* what one pass of the loop of lines 207-227 does to seen_urls, yt_sources
\* and other_sources; raised: metadata.get fails on a value that is no dict
CollectOne(seen, yt, other, doc, kws, exclude_kws) ==
    LET metadata == ParseMeta(doc.metadata)
        same == [seen_urls |-> seen, yt_sources |-> yt,
                 other_sources |-> other, raised |-> FALSE]
    IN IF ~Truthy(metadata) THEN same
       ELSE IF ~HasGet(metadata) THEN [same EXCEPT !.raised = TRUE]
       ELSE IF AlreadySeen(metadata.source, seen) THEN same
       ELSE IF IsYoutube(metadata.source)
            THEN IF metadata.title # <<>> /\ kws # <<>>
                    /\ ~IsExcludedVideo(metadata.title, exclude_kws)
                    /\ MatchesAny(metadata.title, kws)
                 THEN [same EXCEPT !.seen_urls = seen \cup {metadata.source},
                                   !.yt_sources = Append(yt, metadata)]
                 ELSE same
       ELSE IF metadata.source # ""
            THEN [same EXCEPT !.seen_urls = seen \cup {metadata.source},
                              !.other_sources = Append(other, metadata)]
       ELSE same

\* lines 243-256: the candidates among the rows of the category query;
\* raised as above
RECURSIVE CatCandidates(_, _, _, _, _)
CatCandidates(rows, seen, cat_seen, cat_yt, exclude_kws) ==
    IF rows = <<>> THEN [cat_yt |-> cat_yt, raised |-> FALSE]
    ELSE LET meta == ParseMeta(Head(rows)) IN
         IF ~Truthy(meta)
         THEN CatCandidates(Tail(rows), seen, cat_seen, cat_yt, exclude_kws)
         ELSE IF ~HasGet(meta) THEN [cat_yt |-> cat_yt, raised |-> TRUE]
         ELSE IF /\ IsYoutube(meta.source)
                 /\ meta.source \notin seen
                 /\ meta.source \notin cat_seen
                 /\ meta.title # <<>>
                 /\ ~IsExcludedVideo(meta.title, exclude_kws)
              THEN CatCandidates(Tail(rows), seen, cat_seen \cup {meta.source},
                                 Append(cat_yt, meta), exclude_kws)
              ELSE CatCandidates(Tail(rows), seen, cat_seen, cat_yt, exclude_kws)

\* lines 263-266: the number of search terms the title contains
RECURSIVE Score(_, _)
Score(title, kws) ==
    IF kws = <<>> THEN 0
    ELSE (IF Contains(Norm(Head(kws)), Norm(title)) THEN 1 ELSE 0)
         + Score(title, Tail(kws))

\* list.sort(key=_score, reverse=True): stable, highest score first
RECURSIVE InsertByScore(_, _, _)
InsertByScore(sorted, item, kws) ==
    IF sorted = <<>> THEN <<item>>
    ELSE IF Score(Head(sorted).title, kws) >= Score(item.title, kws)
         THEN <<Head(sorted)>> \o InsertByScore(Tail(sorted), item, kws)
         ELSE <<item>> \o sorted

RECURSIVE SortedByScore(_, _)
SortedByScore(items, kws) ==
    IF items = <<>> THEN <<>>
    ELSE InsertByScore(SortedByScore(SubSeq(items, 1, Len(items) - 1), kws),
                       items[Len(items)], kws)

\* lines 260-269
Scored(cat_yt, kws) ==
    IF kws # <<>>
    THEN SortedByScore(SelectSeq(cat_yt, LAMBDA item : Score(item.title, kws) > 0),
                       kws)
    ELSE cat_yt

\* the first n elements
Take(items, n) ==
    SubSeq(items, 1, IF Len(items) < n THEN Len(items) ELSE (IF n < 0 THEN 0 ELSE n))

\* the source URLs of a list of metadata
SourcesOf(metas) == {metas[i].source : i \in 1..Len(metas)}

\* mutant of line 271: need = MAX_YT, whatever loop (A) collected
CategoryPickWholeCap(seen, yt, rows, failed, kws, exclude_kws) ==
    LET same == [seen_urls |-> seen, yt_sources |-> yt]
        cand == CatCandidates(rows, seen, {}, <<>>, exclude_kws)
        picked == Take(Scored(cand.cat_yt, kws), MAX_YT)
    IN IF Len(yt) >= MAX_YT \/ failed \/ cand.raised THEN same
       ELSE [seen_urls |-> seen \cup SourcesOf(picked),
             yt_sources |-> yt \o picked]

\* lines 234-277: what the category supplement does to seen_urls and
\* yt_sources; rows is the store's answer, failed that the query raised
CategoryPick(seen, yt, rows, failed, kws, exclude_kws) ==
    LET same == [seen_urls |-> seen, yt_sources |-> yt]
        cand == CatCandidates(rows, seen, {}, <<>>, exclude_kws)
        picked == Take(Scored(cand.cat_yt, kws), MAX_YT - Len(yt))
    IN IF Len(yt) >= MAX_YT \/ failed \/ cand.raised THEN same
       ELSE [seen_urls |-> seen \cup SourcesOf(picked),
             yt_sources |-> yt \o picked]

\* mutant of line 297: the URL is not looked up in seen_urls
RECURSIVE KeywordLoopUnseen(_, _, _, _, _)
KeywordLoopUnseen(results, seen, yt, kws, exclude_kws) ==
    LET same == [seen_urls |-> seen, yt_sources |-> yt, raised |-> FALSE] IN
    IF results = <<>> \/ Len(yt) >= MAX_YT THEN same
    ELSE LET meta == ParseMeta(Head(results).metadata) IN
         IF ~Truthy(meta)
         THEN KeywordLoopUnseen(Tail(results), seen, yt, kws, exclude_kws)
         ELSE IF ~HasGet(meta) THEN [same EXCEPT !.raised = TRUE]
         ELSE IF /\ IsYoutube(meta.source)
                 /\ meta.title # <<>>
                 /\ ~IsExcludedVideo(meta.title, exclude_kws)
                 /\ MatchesAny(meta.title, kws)
              THEN KeywordLoopUnseen(Tail(results), seen \cup {meta.source},
                                     Append(yt, meta), kws, exclude_kws)
              ELSE KeywordLoopUnseen(Tail(results), seen, yt, kws, exclude_kws)

\* lines 291-308 for the results of one keyword search; raised as above
RECURSIVE KeywordLoop(_, _, _, _, _)
KeywordLoop(results, seen, yt, kws, exclude_kws) ==
    LET same == [seen_urls |-> seen, yt_sources |-> yt, raised |-> FALSE] IN
    IF results = <<>> \/ Len(yt) >= MAX_YT THEN same
    ELSE LET meta == ParseMeta(Head(results).metadata) IN
         IF ~Truthy(meta)
         THEN KeywordLoop(Tail(results), seen, yt, kws, exclude_kws)
         ELSE IF ~HasGet(meta) THEN [same EXCEPT !.raised = TRUE]
         ELSE IF /\ IsYoutube(meta.source)
                 /\ meta.source \notin seen
                 /\ meta.title # <<>>
                 /\ ~IsExcludedVideo(meta.title, exclude_kws)
                 /\ MatchesAny(meta.title, kws)
              THEN KeywordLoop(Tail(results), seen \cup {meta.source},
                               Append(yt, meta), kws, exclude_kws)
              ELSE KeywordLoop(Tail(results), seen, yt, kws, exclude_kws)

(***************************************************************************)
(* State.                                                                  *)
(***************************************************************************)
VARIABLES
    cache,           \* self._cache
    now,             \* time.time()
    pc,              \* where each caller of retrieve is
    query,           \* its query
    futures,         \* the four futures: "none", "pending" or "done"
    search_results,  \* the results collected so far, by label
    merged_docs,     \* dict of the merge loop
    ranked,          \* the sorted list
    final_results,   \* the truncated list
    oldest_key,      \* _set_cache: the local oldest_key (0: unset)
    result,          \* the list the last finished call returned
    submitted,       \* searches submitted to the store by the current call
    started,         \* clock value when the current call submitted them
    failed,          \* labels whose future raised in the current call
    late,            \* labels whose future took longer than FUTURE_TIMEOUT
    call_k,          \* the argument k of the current call
    hist,            \* SeqSpec: what the caller's calls saw, for the properties
    kw_pc,           \* _extract_keywords: where the call is
    query_text,      \* its argument
    tokens,          \* its local tokens
    keywords,        \* its local keywords
    unique,          \* its local unique, which it returns
    chat_pc,         \* response_generator: where the request is
    request,         \* the ChatRequest: query and category
    synonyms,        \* the synonym dictionary behind get_synonyms
    retrieval_task,  \* "none", "running", "done" or "raised"
    classification_task,
    retrieve_calls,  \* calls of retriever.retrieve made for the request
    context_docs,    \* what retrieve returned
    classified_category,
    final_category,
    stream,          \* chunks generate_answer_stream has still to yield
    is_fallback,
    out,             \* the chunks of the response so far
    search_keywords,
    seen_urls,
    yt_sources,
    other_sources,
    doc_i,           \* index of the next context document of loop (A)
    sources

vars == <<cache, now, pc, query, futures, search_results, merged_docs,
          ranked, final_results, oldest_key, result, submitted, started,
          failed, late, call_k, hist, kw_pc, query_text, tokens, keywords, unique,
          chat_pc, request, synonyms, retrieval_task, classification_task,
          retrieve_calls, context_docs, classified_category, final_category,
          stream, is_fallback, out, search_keywords, seen_urls, yt_sources,
          other_sources, doc_i, sources>>

\* the variables of one /chat request
chatVars == <<chat_pc, request, synonyms, retrieval_task, classification_task,
              retrieve_calls, context_docs, classified_category,
              final_category, stream, is_fallback, out, search_keywords,
              seen_urls, yt_sources, other_sources, doc_i, sources>>

\* the locals of the curation block (lines 183-312)
curationVars == <<search_keywords, seen_urls, yt_sources, other_sources,
                  doc_i, sources>>

\* the request as chat_endpoint received it, and what the two tasks gave
taskVars == <<request, synonyms, retrieval_task, classification_task,
              retrieve_calls, context_docs, classified_category,
              final_category>>

NoRequest == [query |-> <<>>, category |-> "auto"]

\* no /chat request is under way
ChatIdle ==
    /\ chat_pc = "idle"
    /\ request = NoRequest
    /\ synonyms = <<>>
    /\ retrieval_task = "none"
    /\ classification_task = "none"
    /\ retrieve_calls = 0
    /\ context_docs = <<>>
    /\ classified_category = "none"
    /\ final_category = "none"
    /\ stream = <<>>
    /\ is_fallback = FALSE
    /\ out = <<>>
    /\ search_keywords = <<>>
    /\ seen_urls = {}
    /\ yt_sources = <<>>
    /\ other_sources = <<>>
    /\ doc_i = 0
    /\ sources = <<>>

\* the variables of _extract_keywords
kwVars == <<kw_pc, query_text, tokens, keywords, unique>>

\* the variables of the Retriever and its callers
retrieverVars == <<cache, now, pc, query, futures, search_results, merged_docs,
                   ranked, final_results, oldest_key, result, submitted,
                   started, failed, late, call_k>>

\* no call of _extract_keywords is under way
KwIdle ==
    /\ kw_pc = "idle"
    /\ query_text = <<>>
    /\ tokens = <<>>
    /\ keywords = <<>>
    /\ unique = <<>>

\* result of a caller that has not returned from any call yet
NoResult == <<"none">>

\* hist before the first call: the previous call's query, result and the
\* time it stored its result (-1: it stored none); the same time for the
\* current call; the time the current call entered; the timestamp of the
\* entry it found (-1: none); the cache as _set_cache found it
NoHist == [prev_query |-> 0, prev_result |-> NoResult, prev_stored |-> -1,
           prev_failed |-> {}, prev_k |-> 0, stored |-> -1, at |-> 0,
           entry_ts |-> -1,
           snap |-> <<>>]

NoFutures == [l \in Labels |-> "none"]
NoResults == [l \in Labels |-> <<>>]

\* Retriever.__init__, and no caller yet
RetrieverInit ==
    /\ cache = <<>>
    /\ now = 0
    /\ pc = [t \in Threads |-> "idle"]
    /\ query = [t \in Threads |-> 0]
    /\ futures = [t \in Threads |-> NoFutures]
    /\ search_results = [t \in Threads |-> NoResults]
    /\ merged_docs = [t \in Threads |-> <<>>]
    /\ ranked = [t \in Threads |-> <<>>]
    /\ final_results = [t \in Threads |-> <<>>]
    /\ oldest_key = [t \in Threads |-> 0]
    /\ result = [t \in Threads |-> NoResult]
    /\ submitted = [t \in Threads |-> 0]
    /\ started = [t \in Threads |-> 0]
    /\ failed = [t \in Threads |-> {}]
    /\ late = [t \in Threads |-> {}]
    /\ call_k = [t \in Threads |-> K_DEFAULT]
    /\ hist = NoHist

Init == RetrieverInit /\ KwIdle /\ ChatIdle

\* the clock advances
Tick ==
    /\ now < MaxTime
    /\ now' = now + 1
    /\ UNCHANGED <<cache, pc, query, futures, search_results,
                   merged_docs, ranked, final_results, oldest_key, result,
                   submitted, started, failed, late, call_k>>

(***************************************************************************)
(* What the store returns.  The cache specifications draw a whole search   *)
(* from SearchOutcomes; FanSpec draws each branch's list from BranchLists. *)
(***************************************************************************)
StoreDoc(l) ==
    [id |-> 1, content |-> 1,
     similarity |-> IF l \in {"docs_vector", "faqs_vector"} THEN 9 ELSE 6,
     src |-> l]

BranchLists(l) == {<<>>, <<StoreDoc(l)>>}

OneHit == [l \in Labels |-> IF l \in {"faqs_vector", "general_kw"}
                            THEN <<StoreDoc(l)>> ELSE <<>>]

SearchOutcomes ==
    {[sr |-> NoResults, failed |-> {}],
     [sr |-> NoResults, failed |-> Labels],
     [sr |-> OneHit, failed |-> {}]}

\* the rows of the curated FAQ table that match the query, best first
FaqRows ==
    <<StoreDoc("faqs_vector"),
      [id |-> 2, content |-> 1, similarity |-> 6, src |-> "faqs_vector"]>>

\* a search that finds FaqRows only: match_hospital_faqs returns at most
\* match_count = k of them (supabase_client.py:122-126, limit match_count)
FaqsUpTo(kk) ==
    [sr |-> [l \in Labels |-> IF l = "faqs_vector" THEN Take(FaqRows, kk)
                                                   ELSE <<>>],
     failed |-> {}]

\* what the searches of a call with argument kk can give
SearchOutcomesOf(kk) == SearchOutcomes \cup {FaqsUpTo(kk)}

\* the outcomes drawn where callers interleave: no branch fails
ConcurrentOutcomes == {[sr |-> OneHit, failed |-> {}]}

\* what a search can raise: a store or network error, or the ValueError of
\* utils/embeddings.py:44
BranchErrors == {"StoreError", "ValueError"}

\* mutant of line 68: the handler names one exception type only
CatchesStoreErrorOnly(exc) == exc = "StoreError"

\* except Exception (retriever.py:68): every exception of a branch is caught
Catches(exc) == exc \in BranchErrors

\* what the handler of retriever.py:68-70 stores for a branch that raised
OnException == <<>>

(***************************************************************************)
(* retrieve, lines 37-41, and _get_cached, lines 18-24.  Lines 19-20 read  *)
(* the dict once and then the clock: they are one step.                    *)
(***************************************************************************)
\* what a caller entering retrieve(q, k) resets; Calling binds its k
Enter(t, q) ==
    /\ pc[t] \in {"idle", "done", "error"}
    /\ query' = [query EXCEPT ![t] = q]
    /\ submitted' = [submitted EXCEPT ![t] = 0]
    /\ started' = [started EXCEPT ![t] = 0]
    /\ failed' = [failed EXCEPT ![t] = {}]
    /\ late' = [late EXCEPT ![t] = {}]
    /\ UNCHANGED <<cache, now, futures, search_results, merged_docs, ranked,
                   final_results, oldest_key>>

\* mutant of lines 38-41: the cached list is cut to the k of the call
CacheHitFirstK(t, q) ==
    /\ Enter(t, q)
    /\ CacheGet(cache, q) # NoEntry
    /\ Fresh(CacheGet(cache, q), now)
    /\ pc' = [pc EXCEPT ![t] = "done"]
    /\ result' = [result EXCEPT ![t] = Take(CacheGet(cache, q).results, call_k'[t])]

\* mutant of lines 19-21: a read refreshes the entry's timestamp
CacheHitTouching(t, q) ==
    /\ pc[t] \in {"idle", "done", "error"}
    /\ CacheGet(cache, q) # NoEntry
    /\ Fresh(CacheGet(cache, q), now)
    /\ cache' = CachePut(cache, q, CacheGet(cache, q).results, now)
    /\ query' = [query EXCEPT ![t] = q]
    /\ submitted' = [submitted EXCEPT ![t] = 0]
    /\ started' = [started EXCEPT ![t] = 0]
    /\ failed' = [failed EXCEPT ![t] = {}]
    /\ late' = [late EXCEPT ![t] = {}]
    /\ pc' = [pc EXCEPT ![t] = "done"]
    /\ result' = [result EXCEPT ![t] = CacheGet(cache, q).results]
    /\ UNCHANGED <<now, futures, search_results, merged_docs, ranked,
                   final_results, oldest_key>>

\* lines 19-21 and 39-41: the entry is fresh, retrieve returns its results
CacheHit(t, q) ==
    /\ Enter(t, q)
    /\ CacheGet(cache, q) # NoEntry
    /\ Fresh(CacheGet(cache, q), now)
    /\ pc' = [pc EXCEPT ![t] = "done"]
    /\ result' = [result EXCEPT ![t] = CacheGet(cache, q).results]

\* lines 19-20, 22: the entry is there and not fresh
CacheExpired(t, q) ==
    /\ Enter(t, q)
    /\ CacheGet(cache, q) # NoEntry
    /\ ~Fresh(CacheGet(cache, q), now)
    /\ pc' = [pc EXCEPT ![t] = "expire"]
    /\ result' = [result EXCEPT ![t] = NoResult]

\* lines 19-20, 22, 24: no entry
CacheMiss(t, q) ==
    /\ Enter(t, q)
    /\ CacheGet(cache, q) = NoEntry
    /\ pc' = [pc EXCEPT ![t] = "search"]
    /\ result' = [result EXCEPT ![t] = NoResult]

\* line 23: del self._cache[key]
ExpireDel(t) ==
    /\ pc[t] = "expire"
    /\ query[t] \in CacheKeys(cache)
    /\ cache' = CacheDel(cache, query[t])
    /\ pc' = [pc EXCEPT ![t] = "search"]
    /\ UNCHANGED <<now, query, futures, search_results, merged_docs,
                   ranked, final_results, oldest_key, result, submitted,
                   started, failed, late, call_k>>

\* line 23 when another caller has removed the key meanwhile: KeyError
ExpireDelRaise(t) ==
    /\ pc[t] = "expire"
    /\ query[t] \notin CacheKeys(cache)
    /\ pc' = [pc EXCEPT ![t] = "raised"]
    /\ UNCHANGED <<cache, now, query, futures, search_results,
                   merged_docs, ranked, final_results, oldest_key, result,
                   submitted, started, failed, late, call_k>>

\* api/main.py:146 and 337-339: the exception of retrieve leaves the
\* request's thread, gather re-raises it in response_generator, and the
\* outer handler yields "Error: " and the exception's text as a chunk of
\* the response
YieldError(t) ==
    /\ pc[t] = "raised"
    /\ pc' = [pc EXCEPT ![t] = "error"]
    /\ UNCHANGED <<cache, now, query, futures, search_results,
                   merged_docs, ranked, final_results, oldest_key, result,
                   submitted, started, failed, late, call_k>>

(***************************************************************************)
(* retrieve, lines 44-109.                                                 *)
(***************************************************************************)
\* the whole search of one call: it touches no state shared between callers
SearchAll(t, outcomes) ==
    /\ pc[t] = "search"
    /\ \E o \in outcomes :
          /\ final_results' = [final_results EXCEPT ![t] = Pipeline(o.sr)]
          /\ failed' = [failed EXCEPT ![t] = o.failed]
    /\ submitted' = [submitted EXCEPT ![t] = Cardinality(Labels)]
    /\ pc' = [pc EXCEPT ![t] = "set_len"]
    /\ UNCHANGED <<cache, now, query, futures, search_results,
                   merged_docs, ranked, oldest_key, result, started, late, call_k>>

\* the store call behind each label (lines 46-60): the adapter's method, the
\* table it reads and the metadata filter it passes
Searches ==
    [docs_vector |-> [method |-> "hybrid_search", table |-> "documents",
                      filter |-> "none"],
     faqs_vector |-> [method |-> "hybrid_search_faqs", table |-> "hospital_faqs",
                      filter |-> "none"],
     youtube_kw  |-> [method |-> "keyword_search", table |-> "documents",
                      filter |-> "type=youtube"],
     general_kw  |-> [method |-> "keyword_search", table |-> "documents",
                      filter |-> "none"]]

\* mutant of lines 44-61: the general keyword search is not submitted
SubmittedThree == [l \in Labels |-> IF l = "general_kw" THEN "none" ELSE "pending"]

\* the futures dict of lines 44-61: one submit per label
Submitted == [l \in Labels |-> "pending"]

\* lines 44-61: the four searches are submitted to the executor
Submit(t) ==
    /\ pc[t] = "search"
    /\ futures' = [futures EXCEPT ![t] = Submitted]
    /\ submitted' = [submitted EXCEPT ![t] =
                        Cardinality({l \in Labels : Submitted[l] = "pending"})]
    /\ started' = [started EXCEPT ![t] = now]
    /\ pc' = [pc EXCEPT ![t] = "fanin"]
    /\ UNCHANGED <<cache, now, query, search_results, merged_docs,
                   ranked, final_results, oldest_key, result, failed, late, call_k>>

IsLate(t) == now - started[t] > FUTURE_TIMEOUT

\* lines 64-67: as_completed yields a future that returned a list
FanInResult(t, l, r) ==
    /\ pc[t] = "fanin"
    /\ futures[t][l] = "pending"
    /\ futures' = [futures EXCEPT ![t][l] = "done"]
    /\ search_results' = [search_results EXCEPT ![t][l] = r]
    /\ late' = [late EXCEPT ![t] = IF IsLate(t) THEN @ \cup {l} ELSE @]
    /\ UNCHANGED <<cache, now, pc, query, merged_docs, ranked,
                   final_results, oldest_key, result, submitted, started,
                   failed, call_k>>

\* lines 64-70: as_completed yields a future that raised
FanInException(t, l, exc) ==
    /\ pc[t] = "fanin"
    /\ futures[t][l] = "pending"
    /\ futures' = [futures EXCEPT ![t][l] = "done"]
    /\ failed' = [failed EXCEPT ![t] = @ \cup {l}]
    /\ late' = [late EXCEPT ![t] = IF IsLate(t) THEN @ \cup {l} ELSE @]
    /\ IF Catches(exc)
       THEN /\ search_results' = [search_results EXCEPT ![t][l] = OnException]
            /\ pc' = pc
       ELSE /\ search_results' = search_results
            /\ pc' = [pc EXCEPT ![t] = "raised"]
    /\ UNCHANGED <<cache, now, query, merged_docs, ranked,
                   final_results, oldest_key, result, submitted, started,
                   call_k>>

AllDone(t) == \A l \in Labels : futures[t][l] = "done"

\* lines 72-91, once as_completed is exhausted
MergeStep(t) ==
    /\ pc[t] = "fanin"
    /\ AllDone(t)
    /\ merged_docs' = [merged_docs EXCEPT ![t] = MergeAll(search_results[t])]
    /\ pc' = [pc EXCEPT ![t] = "rank"]
    /\ UNCHANGED <<cache, now, query, futures, search_results, ranked,
                   final_results, oldest_key, result, submitted, started,
                   failed, late, call_k>>

\* line 94
RankStep(t) ==
    /\ pc[t] = "rank"
    /\ ranked' = [ranked EXCEPT ![t] = Sorted(merged_docs[t])]
    /\ pc' = [pc EXCEPT ![t] = "truncate"]
    /\ UNCHANGED <<cache, now, query, futures, search_results,
                   merged_docs, final_results, oldest_key, result, submitted,
                   started, failed, late, call_k>>

\* lines 97-106
TruncateStep(t) ==
    /\ pc[t] = "truncate"
    /\ final_results' = [final_results EXCEPT ![t] = Truncate(ranked[t])]
    /\ pc' = [pc EXCEPT ![t] = "set_len"]
    /\ UNCHANGED <<cache, now, query, futures, search_results,
                   merged_docs, ranked, oldest_key, result, submitted,
                   started, failed, late, call_k>>

(***************************************************************************)
(* _set_cache, lines 26-30, and the return of line 112.                    *)
(***************************************************************************)
\* line 27, cache full
SetCacheFull(t) ==
    /\ pc[t] = "set_len"
    /\ CacheFull(cache)
    /\ pc' = [pc EXCEPT ![t] = "set_min"]
    /\ UNCHANGED <<cache, now, query, futures, search_results,
                   merged_docs, ranked, final_results, oldest_key, result,
                   submitted, started, failed, late, call_k>>

\* line 27, room left
SetCacheRoom(t) ==
    /\ pc[t] = "set_len"
    /\ ~CacheFull(cache)
    /\ pc' = [pc EXCEPT ![t] = "set_ins"]
    /\ UNCHANGED <<cache, now, query, futures, search_results,
                   merged_docs, ranked, final_results, oldest_key, result,
                   submitted, started, failed, late, call_k>>

\* line 28
SetCacheMin(t) ==
    /\ pc[t] = "set_min"
    /\ cache # <<>>
    /\ oldest_key' = [oldest_key EXCEPT ![t] = OldestKey(cache)]
    /\ pc' = [pc EXCEPT ![t] = "set_del"]
    /\ UNCHANGED <<cache, now, query, futures, search_results,
                   merged_docs, ranked, final_results, result, submitted,
                   started, failed, late, call_k>>

\* line 29
SetCacheDel(t) ==
    /\ pc[t] = "set_del"
    /\ oldest_key[t] \in CacheKeys(cache)
    /\ cache' = CacheDel(cache, oldest_key[t])
    /\ pc' = [pc EXCEPT ![t] = "set_ins"]
    /\ UNCHANGED <<now, query, futures, search_results, merged_docs,
                   ranked, final_results, oldest_key, result, submitted,
                   started, failed, late, call_k>>

\* line 29 when another caller has removed oldest_key meanwhile: KeyError
SetCacheDelRaise(t) ==
    /\ pc[t] = "set_del"
    /\ oldest_key[t] \notin CacheKeys(cache)
    /\ pc' = [pc EXCEPT ![t] = "raised"]
    /\ UNCHANGED <<cache, now, query, futures, search_results,
                   merged_docs, ranked, final_results, oldest_key, result,
                   submitted, started, failed, late, call_k>>

\* mutant of line 111: a result is stored only when no branch failed
SetCacheInsertUnlessFailed(t) ==
    /\ pc[t] = "set_ins"
    /\ cache' = IF failed[t] # {} THEN cache
                ELSE CachePut(cache, query[t], final_results[t], now)
    /\ result' = [result EXCEPT ![t] = final_results[t]]
    /\ pc' = [pc EXCEPT ![t] = "done"]
    /\ final_results' = [final_results EXCEPT ![t] = <<>>]
    /\ oldest_key' = [oldest_key EXCEPT ![t] = 0]
    /\ futures' = [futures EXCEPT ![t] = NoFutures]
    /\ search_results' = [search_results EXCEPT ![t] = NoResults]
    /\ merged_docs' = [merged_docs EXCEPT ![t] = <<>>]
    /\ ranked' = [ranked EXCEPT ![t] = <<>>]
    /\ UNCHANGED <<now, query, submitted, started, failed, late, call_k>>

\* line 30, and retrieve returns final_results (line 112)
SetCacheInsert(t) ==
    /\ pc[t] = "set_ins"
    /\ cache' = CachePut(cache, query[t], final_results[t], now)
    /\ result' = [result EXCEPT ![t] = final_results[t]]
    /\ pc' = [pc EXCEPT ![t] = "done"]
    /\ final_results' = [final_results EXCEPT ![t] = <<>>]
    /\ oldest_key' = [oldest_key EXCEPT ![t] = 0]
    /\ futures' = [futures EXCEPT ![t] = NoFutures]
    /\ search_results' = [search_results EXCEPT ![t] = NoResults]
    /\ merged_docs' = [merged_docs EXCEPT ![t] = <<>>]
    /\ ranked' = [ranked EXCEPT ![t] = <<>>]
    /\ UNCHANGED <<now, query, submitted, started, failed, late, call_k>>

(***************************************************************************)
(* Specifications.                                                         *)
(***************************************************************************)
\* a step that records nothing
Silent(A) == A /\ UNCHANGED <<hist, kwVars, chatVars>>

\* the caller's argument k of a call that enters retrieve (line 32)
Calling(A, t, kk) == call_k' = [call_k EXCEPT ![t] = kk] /\ A

\* api/main.py:139 passes the query only, so k has its default
Called(A, t) == Calling(A, t, K_DEFAULT)

\* SeqSpec's caller enters retrieve(q)
Entering(A, q) ==
    /\ A
    /\ hist' = [prev_query |-> query[T1], prev_result |-> result[T1],
                prev_stored |-> hist.stored, prev_failed |-> failed[T1],
                prev_k |-> call_k[T1],
                stored |-> -1, at |-> now,
                entry_ts |-> CacheGet(cache, q).timestamp, snap |-> <<>>]
    /\ UNCHANGED <<kwVars, chatVars>>

\* SeqSpec's caller enters _set_cache (line 27)
EnteringSetCache(A) ==
    /\ A
    /\ hist' = [hist EXCEPT !.snap = cache]
    /\ UNCHANGED <<kwVars, chatVars>>

\* SeqSpec's caller stores its result (line 30)
Storing(A) ==
    /\ A
    /\ hist' = [hist EXCEPT !.stored = now]
    /\ UNCHANGED <<kwVars, chatVars>>

\* api/main.py:139 runs every request's retrieve in a thread of its own
Next ==
    \/ Silent(Tick)
    \/ \E t \in Threads : \E q \in Queries : Silent(Called(CacheHit(t, q), t))
    \/ \E t \in Threads : \E q \in Queries : Silent(Called(CacheExpired(t, q), t))
    \/ \E t \in Threads : \E q \in Queries : Silent(Called(CacheMiss(t, q), t))
    \/ \E t \in Threads : Silent(ExpireDel(t))
    \/ \E t \in Threads : Silent(ExpireDelRaise(t))
    \/ \E t \in Threads : Silent(YieldError(t))
    \/ \E t \in Threads : Silent(SearchAll(t, ConcurrentOutcomes))
    \/ \E t \in Threads : Silent(SetCacheFull(t))
    \/ \E t \in Threads : Silent(SetCacheRoom(t))
    \/ \E t \in Threads : Silent(SetCacheMin(t))
    \/ \E t \in Threads : Silent(SetCacheDel(t))
    \/ \E t \in Threads : Silent(SetCacheDelRaise(t))
    \/ \E t \in Threads : Silent(SetCacheInsert(t))

Spec == Init /\ [][Next]_vars

\* one caller: no step of another caller comes between two of its steps;
\* hist keeps what its calls saw
SeqNext ==
    \/ Silent(Tick)
    \/ \E q \in Queries : Entering(Called(CacheHit(T1, q), T1), q)
    \/ \E q \in Queries : Entering(Called(CacheExpired(T1, q), T1), q)
    \/ \E q \in Queries : Entering(Called(CacheMiss(T1, q), T1), q)
    \/ Silent(ExpireDel(T1))
    \/ Silent(SearchAll(T1, SearchOutcomes))
    \/ EnteringSetCache(SetCacheFull(T1))
    \/ EnteringSetCache(SetCacheRoom(T1))
    \/ Silent(SetCacheMin(T1))
    \/ Silent(SetCacheDel(T1))
    \/ Storing(SetCacheInsert(T1))

SeqSpec == Init /\ [][SeqNext]_vars

\* the query of FanSpec's one call
FanQueries == {1}

\* one call on an empty cache, its fan-out and fan-in step by step, and the
\* calls of the same query that follow it while the entry is fresh
FanNext ==
    \/ Silent(Tick)
    \/ \E q \in FanQueries : Entering(Called(CacheHit(T1, q), T1), q)
    \/ \E q \in FanQueries : Entering(Called(CacheMiss(T1, q), T1), q)
    \/ Silent(Submit(T1))
    \/ \E l \in Labels : \E r \in BranchLists(l) : Silent(FanInResult(T1, l, r))
    \/ \E l \in Labels : \E exc \in BranchErrors :
          Silent(FanInException(T1, l, exc))
    \/ Silent(MergeStep(T1))
    \/ Silent(RankStep(T1))
    \/ Silent(TruncateStep(T1))
    \/ Silent(SetCacheRoom(T1))
    \/ Storing(SetCacheInsert(T1))

FanSpec == Init /\ [][FanNext]_vars

\* one caller that passes any k, and one query: the searches of a call
\* give at most k rows of a branch
KNext ==
    \/ Silent(Tick)
    \/ \E q \in FanQueries : \E kk \in Ks :
          Entering(Calling(CacheHit(T1, q), T1, kk), q)
    \/ \E q \in FanQueries : \E kk \in Ks :
          Entering(Calling(CacheExpired(T1, q), T1, kk), q)
    \/ \E q \in FanQueries : \E kk \in Ks :
          Entering(Calling(CacheMiss(T1, q), T1, kk), q)
    \/ Silent(ExpireDel(T1))
    \/ Silent(SearchAll(T1, SearchOutcomesOf(call_k[T1])))
    \/ EnteringSetCache(SetCacheRoom(T1))
    \/ Storing(SetCacheInsert(T1))

KSpec == Init /\ [][KNext]_vars

\* the lists of k documents a branch can hold
ListsOf(l, k) == [1..k -> Docs(l)]

\* how MaxInputDocs documents at most spread over the four branches
LenDist ==
    {ln \in [Labels -> 0..MaxInputDocs] :
        ln["docs_vector"] + ln["faqs_vector"] + ln["youtube_kw"]
            + ln["general_kw"] <= MaxInputDocs}

\* a call whose four futures have been collected, with any lists
MergeInit ==
    /\ cache = <<>>
    /\ now = 0
    /\ pc = [t \in Threads |-> IF t = T1 THEN "fanin" ELSE "idle"]
    /\ query = [t \in Threads |-> IF t = T1 THEN 1 ELSE 0]
    /\ futures = [t \in Threads |->
                    IF t = T1 THEN [l \in Labels |-> "done"] ELSE NoFutures]
    /\ \E ln \in LenDist :
         \E sr \in [docs_vector : ListsOf("docs_vector", ln["docs_vector"]),
                    faqs_vector : ListsOf("faqs_vector", ln["faqs_vector"]),
                    youtube_kw : ListsOf("youtube_kw", ln["youtube_kw"]),
                    general_kw : ListsOf("general_kw", ln["general_kw"])] :
            search_results = [t \in Threads |-> IF t = T1 THEN sr ELSE NoResults]
    /\ merged_docs = [t \in Threads |-> <<>>]
    /\ ranked = [t \in Threads |-> <<>>]
    /\ final_results = [t \in Threads |-> <<>>]
    /\ oldest_key = [t \in Threads |-> 0]
    /\ result = [t \in Threads |-> NoResult]
    /\ submitted = [t \in Threads |-> IF t = T1 THEN Cardinality(Labels) ELSE 0]
    /\ started = [t \in Threads |-> 0]
    /\ failed = [t \in Threads |-> {}]
    /\ late = [t \in Threads |-> {}]
    /\ call_k = [t \in Threads |-> K_DEFAULT]
    /\ hist = NoHist
    /\ KwIdle
    /\ ChatIdle

MergeNext ==
    \/ Silent(MergeStep(T1))
    \/ Silent(RankStep(T1))
    \/ Silent(TruncateStep(T1))

MergeSpec == MergeInit /\ [][MergeNext]_vars

(***************************************************************************)
(* _extract_keywords step by step, on every query string (KwSpec).         *)
(***************************************************************************)
\* line 177
TokenizeStep ==
    /\ kw_pc = "start"
    /\ tokens' = Tokens(query_text)
    /\ kw_pc' = "filter"
    /\ UNCHANGED <<query_text, keywords, unique, retrieverVars, hist, chatVars>>

\* lines 178-186
FilterStep ==
    /\ kw_pc = "filter"
    /\ keywords' = FilterTokens(tokens)
    /\ kw_pc' = "dedupe"
    /\ UNCHANGED <<query_text, tokens, unique, retrieverVars, hist, chatVars>>

\* lines 188-194
DedupeStep ==
    /\ kw_pc = "dedupe"
    /\ unique' = Unique(keywords)
    /\ kw_pc' = "fallback"
    /\ UNCHANGED <<query_text, tokens, keywords, retrieverVars, hist, chatVars>>

\* lines 196-198
ReturnStep ==
    /\ kw_pc = "fallback"
    /\ unique' = Fallback(unique, tokens)
    /\ kw_pc' = "returned"
    /\ UNCHANGED <<query_text, tokens, keywords, retrieverVars, hist, chatVars>>

KwInit ==
    /\ RetrieverInit
    /\ kw_pc = "start"
    /\ query_text \in QueryTexts
    /\ tokens = <<>>
    /\ keywords = <<>>
    /\ unique = <<>>
    /\ ChatIdle

KwNext ==
    \/ TokenizeStep
    \/ FilterStep
    \/ DedupeStep
    \/ ReturnStep

KwSpec == KwInit /\ [][KwNext]_vars

(***************************************************************************)
(* Inputs of a /chat request.                                              *)
(***************************************************************************)
\* titles: one that holds the search term "ab" in another case and with a
\* space, two that also hold exclusion terms ("x" for cancer, "xc" for
\* both categories), one that holds the terms "d" and "m", and none
TitleMatch == <<"A", " ", "b">>
TitleExcludedForCancer == <<"a", "b", "x">>
TitleExcludedForBoth == <<"a", "b", "x", "c">>
TitleOther == <<"d", "m">>
NoTitle == <<>>
Titles == {TitleMatch, TitleExcludedForCancer, TitleExcludedForBoth,
           TitleOther, NoTitle}

Meta(form, source, title, origin) ==
    [form |-> form, source |-> source, title |-> title, origin |-> origin]

\* metadata the store holds as a string that is no JSON object, or as null
Malformed(origin) ==
    {Meta(f, "", NoTitle, origin) : f \in {"json_array", "json_invalid", "json_null"}}

\* metadata of the rows the two supplements read: a matching title under
\* every video URL, the other titles under one, a JSON object held as a
\* string, and a JSON array
VideoMetas(origin) ==
    {Meta("dict", u, TitleMatch, origin) : u \in YoutubeUrls}
    \cup {Meta("dict", "https://youtube.com/watch?v=1", t, origin) :
            t \in Titles \ {TitleMatch}}
    \cup {Meta("json_object", "https://youtu.be/2", TitleOther, origin),
          Meta("dict", "https://clinic.example/a", TitleMatch, origin),
          Meta("json_array", "", NoTitle, origin)}

\* metadata of the context documents curation reads
ContextMetas ==
    {Meta("dict", "https://clinic.example/a", t, "context") :
        t \in {TitleMatch, TitleOther}}
    \cup {Meta("json_object", "https://clinic.example/b", TitleOther, "context"),
          Meta("dict", "", TitleMatch, "context"),
          Meta("dict", "https://youtu.be/2", TitleOther, "context")}
    \cup {Meta("dict", "https://youtube.com/watch?v=1", t, "context") :
            t \in {TitleMatch, TitleExcludedForCancer, TitleExcludedForBoth,
                   NoTitle}}
    \cup Malformed("context")

\* a document retrieve returned: its metadata and its similarity in tenths
ContextDoc(meta, sim) == [metadata |-> meta, similarity |-> sim]

\* the lists of at most n elements of a set
ListsUpTo(S, n) == UNION {[1..k -> S] : k \in 0..n}

\* context_docs of the curation specification
CurateContexts ==
    ListsUpTo({ContextDoc(m, 9) : m \in ContextMetas}, MaxContextLen) \ {<<>>}

\* context_docs of the request specification: none, a page, a page below
\* the relevance floor, a video with the least score keyword_search keeps,
\* and a document whose metadata is a JSON array
ChatContexts ==
    {<<>>,
     <<ContextDoc(Meta("dict", "https://clinic.example/a", TitleOther, "context"), 9)>>,
     <<ContextDoc(Meta("dict", "https://clinic.example/a", TitleOther, "context"), 2)>>,
     <<ContextDoc(Meta("dict", "https://youtu.be/2", TitleMatch, "context"), 3)>>,
     <<ContextDoc(Meta("json_array", "", NoTitle, "context"), 9)>>}

\* rows of the category query (lines 236-240)
CategoryRows == ListsUpTo(VideoMetas("category"), MaxCategoryRows)

\* what the category query gives: rows, or an exception
CategoryAnswers ==
    {[rows |-> rows, query_failed |-> FALSE] : rows \in CategoryRows}
    \cup {[rows |-> <<>>, query_failed |-> TRUE]}

\* results of one keyword search of the supplement (lines 286-290)
KeywordResults ==
    ListsUpTo({ContextDoc(m, 6) : m \in VideoMetas("keyword")}, MaxKeywordResults)

\* queries: one without a token, one with the keyword "ab", one whose
\* keyword has three-character subwords, one that names a cancer, and one
\* that asks for a diagnosis
ChatQueries ==
    {<<"?">>, <<"a", "b", "?">>, <<"a", "b", "x", "c">>, <<"d", "m">>,
     <<"d", " ", "x">>}

Categories == {"auto", "cancer", "nerve", "general"}

\* what classify_query returns (generator.py:160-176)
Classes == {"cancer", "nerve", "general"}

\* synonym dictionaries: an empty one, and one with a synonym for "ab"
SynonymTables == {<<>>, (<<"a", "b">> :> << <<"d">> >>)}

\* SafetyGuard.FORBIDDEN_KEYWORDS (safety.py:6-10)
FORBIDDEN_KEYWORDS == {<<"d", " ", "x">>}

RemoveSpaces(str) == SelectSeq(str, LAMBDA c : c # " ")

\* SafetyGuard.check_medical_query (safety.py:50-53)
CheckMedicalQuery(q) ==
    \E kw \in FORBIDDEN_KEYWORDS : Contains(RemoveSpaces(kw), RemoveSpaces(q))

\* keyword_search (supabase_client.py:270): if score >= 0.3, in tenths
ScoreKept(score) == score >= 3

\* mutant of safety.py:22: the floor is SIMILARITY_THRESHOLD itself
CheckRelevanceFullThreshold(docs) ==
    /\ docs # <<>>
    /\ \E i \in 1..Len(docs) : docs[i].similarity * 10 >= SIMILARITY_THRESHOLD * 10

\* SafetyGuard.check_relevance (safety.py:13-23), similarities in tenths
CheckRelevance(docs) ==
    /\ docs # <<>>
    /\ \E i \in 1..Len(docs) : docs[i].similarity * 10 >= SIMILARITY_THRESHOLD * 7

\* _format_context (generator.py:144-149): a string is replaced by what
\* json.loads makes of it, or by {} if it is no JSON
FormatMeta(raw) ==
    CASE raw.form = "json_object" -> [raw EXCEPT !.form = "dict"]
      [] raw.form = "json_array" -> [raw EXCEPT !.form = "list"]
      [] raw.form = "json_null" -> [raw EXCEPT !.form = "None"]
      [] raw.form = "json_invalid" -> [raw EXCEPT !.form = "empty"]
      [] OTHER -> raw

\* _format_context (generator.py:151): metadata.get fails on a value that
\* is no dict
FormatContextRaises(docs) ==
    \E i \in 1..Len(docs) : ~HasGet(FormatMeta(docs[i].metadata))

\* generate_answer_stream (generator.py:243-319): the chunk sequences it
\* can yield.  "text" is text of the language model and "marked_text" such
\* text that begins with the characters of FALLBACK_PREFIX; "prefix" is
\* FALLBACK_PREFIX; "gen_error" is the apology for an exception of the
\* model call, "blocked" the notice of generator.py:384.  "AttributeError"
\* is no chunk: the generator raises it at line 290, which is in no try
\* block
GenerateStreams(q, docs, cat) ==
    IF cat = "general" THEN {<<"text">>, <<"gen_error">>}
    ELSE IF CheckMedicalQuery(q) THEN {<<"warning">>}
    ELSE IF ~CheckRelevance(docs)
         THEN {<<"prefix", "text", "fallback_disclaimer">>,
               <<"prefix", "text", "blocked">>,
               <<"prefix", "no_info">>}
    ELSE IF FormatContextRaises(docs) THEN {<<"AttributeError">>}
    ELSE {<<"text", "disclaimer">>, <<"text">>, <<"marked_text", "disclaimer">>,
          <<"gen_error">>}

\* mutant of line 160: the refusal warning counts as a fallback answer
StartsWithMarkerOrWarning(chunk) == chunk \in {"prefix", "marked_text", "warning"}

\* chunk.startswith("[일반 의학 정보 안내]") (api/main.py:160)
StartsWithMarker(chunk) == chunk \in {"prefix", "marked_text"}

\* queries of the curation specification: one without a token, one with
\* the keyword "ab", one that names a cancer, one that asks for a diagnosis
CurateQueries == {<<"?">>, <<"a", "b", "?">>, <<"d", "m">>, <<"d", " ", "x">>}

(***************************************************************************)
(* response_generator (api/main.py:128-339), one request.                  *)
(***************************************************************************)
\* chat_endpoint (lines 117-126): the query is stripped and not empty
Receive(q, cat, syn) ==
    /\ chat_pc = "idle"
    /\ q # <<>>
    /\ request' = [query |-> q, category |-> cat]
    /\ synonyms' = syn
    /\ chat_pc' = "start"
    /\ UNCHANGED <<retrieval_task, classification_task, retrieve_calls,
                   context_docs, classified_category, final_category, stream,
                   is_fallback, out, curationVars, retrieverVars, hist, kwVars>>

\* lines 139-143: the two tasks are created
StartTasks ==
    /\ chat_pc = "start"
    /\ retrieval_task' = "running"
    /\ retrieve_calls' = retrieve_calls + 1
    /\ classification_task' = "running"
    /\ chat_pc' = "gather"
    /\ UNCHANGED <<request, synonyms, context_docs, classified_category,
                   final_category, stream, is_fallback, out, curationVars,
                   retrieverVars, hist, kwVars>>

\* retriever.retrieve returns in its thread
RetrievalReturns(docs) ==
    /\ retrieval_task = "running"
    /\ retrieval_task' = "done"
    /\ context_docs' = docs
    /\ UNCHANGED <<chat_pc, request, synonyms, classification_task,
                   retrieve_calls, classified_category, final_category, stream,
                   is_fallback, out, curationVars, retrieverVars, hist, kwVars>>

\* retriever.retrieve raises in its thread (retriever.py:23, 29 under
\* concurrent callers)
RetrievalRaises ==
    /\ retrieval_task = "running"
    /\ retrieval_task' = "raised"
    /\ UNCHANGED <<chat_pc, request, synonyms, classification_task,
                   retrieve_calls, context_docs, classified_category,
                   final_category, stream, is_fallback, out, curationVars,
                   retrieverVars, hist, kwVars>>

\* generator.classify_query returns in its thread (generator.py:160-176:
\* it raises nothing)
ClassificationReturns(c) ==
    /\ classification_task = "running"
    /\ classification_task' = "done"
    /\ classified_category' = c
    /\ UNCHANGED <<chat_pc, request, synonyms, retrieval_task, retrieve_calls,
                   context_docs, final_category, stream, is_fallback, out,
                   curationVars, retrieverVars, hist, kwVars>>

\* mutant of line 146: the handler goes on when retrieval is done
GatheredRetrievalOnly == retrieval_task = "done"

\* line 146: both awaited tasks have a result
Gathered == retrieval_task = "done" /\ classification_task = "done"

\* lines 146-156: gather returns, the category is resolved and the answer
\* generator is created
Gather ==
    /\ chat_pc = "gather"
    /\ Gathered
    /\ LET cat == IF request.category = "auto" THEN classified_category
                  ELSE request.category
       IN /\ final_category' = cat
          /\ stream' \in GenerateStreams(request.query, context_docs, cat)
    /\ is_fallback' = FALSE
    /\ chat_pc' = "stream"
    /\ UNCHANGED <<request, synonyms, retrieval_task, classification_task,
                   retrieve_calls, context_docs, classified_category, out,
                   curationVars, retrieverVars, hist, kwVars>>

\* line 146: gather re-raises the exception of retrieve
GatherRaises ==
    /\ chat_pc = "gather"
    /\ retrieval_task = "raised"
    /\ chat_pc' = "error"
    /\ UNCHANGED <<taskVars, stream, is_fallback, out, curationVars,
                   retrieverVars, hist, kwVars>>

\* lines 159-163: one chunk
StreamChunk ==
    /\ chat_pc = "stream"
    /\ stream # <<>>
    /\ Head(stream) # "AttributeError"
    /\ is_fallback' = (is_fallback \/ StartsWithMarker(Head(stream)))
    /\ out' = Append(out, Head(stream))
    /\ stream' = Tail(stream)
    /\ UNCHANGED <<chat_pc, taskVars, curationVars, retrieverVars, hist, kwVars>>

\* line 159: the generator raises; the exception reaches line 337
StreamRaises ==
    /\ chat_pc = "stream"
    /\ stream # <<>>
    /\ Head(stream) = "AttributeError"
    /\ chat_pc' = "error"
    /\ UNCHANGED <<taskVars, stream, is_fallback, out, curationVars,
                   retrieverVars, hist, kwVars>>

\* mutant of line 170: a fallback answer gets citations too
CurationRunsOnFallback(docs, cat, fallback) == docs # <<>> /\ cat # "general"

\* line 170
CurationRuns(docs, cat, fallback) ==
    docs # <<>> /\ cat # "general" /\ ~fallback

\* lines 169-197: the condition holds; the search terms are computed
GateOpen ==
    /\ chat_pc = "stream"
    /\ stream = <<>>
    /\ CurationRuns(context_docs, final_category, is_fallback)
    /\ search_keywords' = SearchKeywords(request.query, synonyms)
    /\ seen_urls' = {}
    /\ yt_sources' = <<>>
    /\ other_sources' = <<>>
    /\ doc_i' = 1
    /\ chat_pc' = "collect"
    /\ UNCHANGED <<taskVars, stream, is_fallback, out, sources,
                   retrieverVars, hist, kwVars>>

\* lines 169-170: the condition fails, sources stays []
GateClosed ==
    /\ chat_pc = "stream"
    /\ stream = <<>>
    /\ ~CurationRuns(context_docs, final_category, is_fallback)
    /\ sources' = <<>>
    /\ chat_pc' = "emit"
    /\ UNCHANGED <<taskVars, stream, is_fallback, out, search_keywords,
                   seen_urls, yt_sources, other_sources, doc_i,
                   retrieverVars, hist, kwVars>>

\* what the pass of loop (A) over the next context document gives
Collected_i ==
    CollectOne(seen_urls, yt_sources, other_sources, context_docs[doc_i],
               search_keywords, ExcludeKeywords(final_category))

\* lines 207-227: one pass of loop (A)
CollectDoc ==
    /\ chat_pc = "collect"
    /\ doc_i <= Len(context_docs)
    /\ ~Collected_i.raised
    /\ seen_urls' = Collected_i.seen_urls
    /\ yt_sources' = Collected_i.yt_sources
    /\ other_sources' = Collected_i.other_sources
    /\ doc_i' = doc_i + 1
    /\ UNCHANGED <<chat_pc, taskVars, stream, is_fallback, out,
                   search_keywords, sources, retrieverVars, hist, kwVars>>

\* line 211: metadata.get raises; loop (A) is in no try block of its own
CollectRaises ==
    /\ chat_pc = "collect"
    /\ doc_i <= Len(context_docs)
    /\ Collected_i.raised
    /\ chat_pc' = "error"
    /\ UNCHANGED <<taskVars, stream, is_fallback, out, curationVars,
                   retrieverVars, hist, kwVars>>

\* lines 234-277: loop (A) is over; the category supplement
CategorySupplement(rows, query_failed) ==
    /\ chat_pc = "collect"
    /\ doc_i > Len(context_docs)
    /\ LET picked == CategoryPick(seen_urls, yt_sources, rows, query_failed,
                                  search_keywords,
                                  ExcludeKeywords(final_category))
       IN /\ seen_urls' = picked.seen_urls
          /\ yt_sources' = picked.yt_sources
    /\ chat_pc' = "keyword"
    /\ UNCHANGED <<taskVars, stream, is_fallback, out, search_keywords,
                   other_sources, doc_i, sources, retrieverVars, hist, kwVars>>

\* what the loop of lines 291-308 over the results of one keyword search
\* gives
Supplemented(yt_results) ==
    KeywordLoop(yt_results, seen_urls, yt_sources, search_keywords,
                ExcludeKeywords(final_category))

\* lines 281-312, table None: the search of the documents table and the
\* loop over its results; line 312 when the supplement ends here
KeywordDocs(yt_results) ==
    /\ chat_pc = "keyword"
    /\ IF Len(yt_sources) >= MAX_YT \/ search_keywords = <<>>
       THEN /\ sources' = other_sources \o yt_sources
            /\ chat_pc' = "emit"
            /\ UNCHANGED <<seen_urls, yt_sources>>
       ELSE /\ seen_urls' = Supplemented(yt_results).seen_urls
            /\ yt_sources' = Supplemented(yt_results).yt_sources
            /\ IF \/ Supplemented(yt_results).raised
                  \/ Len(Supplemented(yt_results).yt_sources) >= MAX_YT
               THEN /\ sources' = other_sources \o Supplemented(yt_results).yt_sources
                    /\ chat_pc' = "emit"
               ELSE /\ sources' = sources
                    /\ chat_pc' = "keyword_faqs"
    /\ UNCHANGED <<taskVars, stream, is_fallback, out, search_keywords,
                   other_sources, doc_i, retrieverVars, hist, kwVars>>

\* lines 283-312, table HOSPITAL_FAQS_TABLE, and the final list
KeywordFaqs(yt_results) ==
    /\ chat_pc = "keyword_faqs"
    /\ seen_urls' = Supplemented(yt_results).seen_urls
    /\ yt_sources' = Supplemented(yt_results).yt_sources
    /\ sources' = other_sources \o Supplemented(yt_results).yt_sources
    /\ chat_pc' = "emit"
    /\ UNCHANGED <<taskVars, stream, is_fallback, out, search_keywords,
                   other_sources, doc_i, retrieverVars, hist, kwVars>>

\* lines 314-315
EmitSources ==
    /\ chat_pc = "emit"
    /\ sources # <<>>
    /\ out' = Append(out, "__SOURCES__")
    /\ chat_pc' = "booking"
    /\ UNCHANGED <<taskVars, stream, is_fallback, curationVars,
                   retrieverVars, hist, kwVars>>

\* line 314: nothing to cite
EmitNothing ==
    /\ chat_pc = "emit"
    /\ sources = <<>>
    /\ chat_pc' = "booking"
    /\ UNCHANGED <<taskVars, stream, is_fallback, out, curationVars,
                   retrieverVars, hist, kwVars>>

\* lines 318-335: the booking card, shown or not (a failure of the
\* detection is caught at line 334)
Booking(show_booking) ==
    /\ chat_pc = "booking"
    /\ out' = IF show_booking THEN Append(out, "__BOOKING__") ELSE out
    /\ chat_pc' = "done"
    /\ UNCHANGED <<taskVars, stream, is_fallback, curationVars,
                   retrieverVars, hist, kwVars>>

\* lines 337-339: the outer handler yields the exception's text
ErrorChunk ==
    /\ chat_pc = "error"
    /\ out' = Append(out, "Error")
    /\ chat_pc' = "done"
    /\ UNCHANGED <<taskVars, stream, is_fallback, curationVars,
                   retrieverVars, hist, kwVars>>

\* one request, from chat_endpoint to the end of the response
ChatNext ==
    \/ \E q \in ChatQueries : \E cat \in Categories : \E syn \in SynonymTables :
          Receive(q, cat, syn)
    \/ StartTasks
    \/ \E docs \in ChatContexts : RetrievalReturns(docs)
    \/ RetrievalRaises
    \/ \E c \in Classes : ClassificationReturns(c)
    \/ Gather
    \/ GatherRaises
    \/ StreamChunk
    \/ StreamRaises
    \/ GateOpen
    \/ GateClosed
    \/ CollectDoc
    \/ CollectRaises
    \/ \E a \in CategoryAnswers : CategorySupplement(a.rows, a.query_failed)
    \/ \E yt_results \in KeywordResults : KeywordDocs(yt_results)
    \/ \E yt_results \in KeywordResults : KeywordFaqs(yt_results)
    \/ EmitSources
    \/ EmitNothing
    \/ \E show_booking \in BOOLEAN : Booking(show_booking)
    \/ ErrorChunk

ChatSpec == Init /\ [][ChatNext]_vars

\* the answer of a request has been streamed and its curation is to run:
\* the answer is the refusal of generator.py:278-280, or the documents have
\* passed _format_context and the language model has answered
CurateInit ==
    /\ RetrieverInit
    /\ KwIdle
    /\ chat_pc = "stream"
    /\ \E q \in CurateQueries : request = [query |-> q, category |-> "auto"]
    /\ synonyms \in SynonymTables
    /\ retrieval_task = "done"
    /\ classification_task = "done"
    /\ retrieve_calls = 1
    /\ context_docs \in CurateContexts
    /\ CheckMedicalQuery(request.query) \/ ~FormatContextRaises(context_docs)
    /\ classified_category \in {"cancer", "nerve"}
    /\ final_category = classified_category
    /\ stream = <<>>
    /\ is_fallback = FALSE
    /\ out = IF CheckMedicalQuery(request.query) THEN <<"warning">>
             ELSE <<"text", "disclaimer">>
    /\ search_keywords = <<>>
    /\ seen_urls = {}
    /\ yt_sources = <<>>
    /\ other_sources = <<>>
    /\ doc_i = 0
    /\ sources = <<>>

\* the curation of one request
CurateNext ==
    \/ GateOpen
    \/ CollectDoc
    \/ CollectRaises
    \/ \E a \in CategoryAnswers : CategorySupplement(a.rows, a.query_failed)
    \/ \E yt_results \in KeywordResults : KeywordDocs(yt_results)
    \/ \E yt_results \in KeywordResults : KeywordFaqs(yt_results)
    \/ EmitSources
    \/ EmitNothing
    \/ ErrorChunk

CurateSpec == CurateInit /\ [][CurateNext]_vars

(***************************************************************************)
(* Properties of the merge, the ranking and the truncation (MergeSpec).    *)
(***************************************************************************)
\* the merge loop of T1's call has run
Merged == pc[T1] \in {"rank", "truncate", "set_len"}

\* the branch lists in the order the merge loop walks them
Candidates ==
    search_results[T1]["faqs_vector"] \o search_results[T1]["youtube_kw"]
        \o search_results[T1]["docs_vector"] \o search_results[T1]["general_kw"]

\* C2: after the merge step, merged_docs holds at most one document per
\* identifier, and for every identifier of any branch the retained document's
\* similarity is at least that of every candidate with that identifier.
C2_MergedUniqueAndBest ==
    Merged =>
        LET m == merged_docs[T1] IN
        /\ \A i, j \in 1..Len(m) : DocId(m[i]) = DocId(m[j]) => i = j
        /\ \A l \in Labels : \A k \in 1..Len(search_results[T1][l]) :
              LET d == search_results[T1][l][k] IN
              \E i \in 1..Len(m) : /\ DocId(m[i]) = DocId(d)
                                   /\ m[i].similarity >= d.similarity

\* an identifier came from two branches with different similarities, and a
\* document without id shares its identifier with another
C2_Witness ==
    /\ Merged
    /\ \E i, j \in 1..Len(Candidates) :
          /\ DocId(Candidates[i]) = DocId(Candidates[j])
          /\ Candidates[i].src # Candidates[j].src
          /\ Candidates[i].similarity < Candidates[j].similarity
          /\ Candidates[i].id = 0
    /\ Len(merged_docs[T1]) = 2

\* C3: the merge walks faqs_vector, youtube_kw, docs_vector, general_kw in
\* this order and a later document replaces the merged one with the same
\* identifier only when its similarity is strictly higher: the retained
\* document is the first candidate, in that order, with the highest
\* similarity of its identifier.
C3_EarlierSourceKeepsTies ==
    Merged =>
        \A i \in 1..Len(merged_docs[T1]) :
            LET m == merged_docs[T1][i] IN
            \E k \in 1..Len(Candidates) :
                /\ Candidates[k] = m
                /\ \A j \in 1..Len(Candidates) :
                      DocId(Candidates[j]) = DocId(m)
                          => Candidates[j].similarity <= m.similarity
                /\ \A j \in 1..(k - 1) :
                      DocId(Candidates[j]) = DocId(m)
                          => Candidates[j].similarity < m.similarity

\* X at 0.9 from the curated table, X at 0.9 with other content from the
\* primary table and X at 0.6 from the general keyword search leave the
\* curated table's X at 0.9
C3_Witness ==
    /\ Merged
    /\ search_results[T1]["faqs_vector"] =
          <<[id |-> 1, content |-> 1, similarity |-> 9, src |-> "faqs_vector"]>>
    /\ search_results[T1]["docs_vector"] =
          <<[id |-> 1, content |-> 2, similarity |-> 9, src |-> "docs_vector"]>>
    /\ search_results[T1]["general_kw"] =
          <<[id |-> 1, content |-> 1, similarity |-> 6, src |-> "general_kw"]>>
    /\ merged_docs[T1] =
          <<[id |-> 1, content |-> 1, similarity |-> 9, src |-> "faqs_vector"]>>

\* T1's call has ranked and truncated
Truncated == pc[T1] = "set_len"

\* C4: the list of a cache miss is sorted by similarity, non-increasing, has
\* at most MAX_CONTEXT_DOCS documents and at most MAX_CONTEXT_CHARS
\* characters of content; a further ranked document is left out even when
\* it fits the character budget.
C4_SortedWithinCapAndBudget ==
    Truncated =>
        LET f == final_results[T1] IN
        /\ \A i \in 1..(Len(f) - 1) : f[i].similarity >= f[i + 1].similarity
        /\ Len(f) <= MAX_CONTEXT_DOCS
        /\ SumLen(f) <= MAX_CONTEXT_CHARS

\* the ranked list has one more document that fits the budget, and it is
\* left out
C4_Witness ==
    /\ Truncated
    /\ Len(ranked[T1]) > MAX_CONTEXT_DOCS
    /\ SumLen(SubSeq(ranked[T1], 1, MAX_CONTEXT_DOCS + 1)) <= MAX_CONTEXT_CHARS
    /\ Len(final_results[T1]) = MAX_CONTEXT_DOCS
    /\ ranked[T1][1].similarity > ranked[T1][MAX_CONTEXT_DOCS].similarity

(***************************************************************************)
(* Properties of the cache for one caller (SeqSpec).                       *)
(***************************************************************************)
\* T1's current call follows a call of the same query that stored its
\* result, and entered retrieve less than the TTL after that
RepeatsWithinTtl ==
    /\ pc[T1] # "idle"
    /\ hist.prev_query = query[T1]
    /\ hist.prev_stored >= 0
    /\ hist.at - hist.prev_stored < RESULT_CACHE_TTL_SECONDS

\* C1: a retrieve(q) that starts less than RESULT_CACHE_TTL_SECONDS after the
\* preceding retrieve(q) of the same caller stored its result returns the
\* same list and submits no search.
C1_RepeatWithinTtlHitsCache ==
    RepeatsWithinTtl =>
        /\ pc[T1] = "done"
        /\ result[T1] = hist.prev_result
        /\ submitted[T1] = 0

\* such a second call, one tick after the first stored a non-empty list
C1_Witness ==
    /\ RepeatsWithinTtl
    /\ hist.at > hist.prev_stored
    /\ pc[T1] = "done"
    /\ result[T1] # <<>>

\* T1's call has run _set_cache to its end on a cache that held exactly
\* RESULT_CACHE_SIZE entries, none of them for its query
StoredIntoFullCache ==
    /\ pc[T1] = "done"
    /\ hist.stored >= 0
    /\ Len(hist.snap) = RESULT_CACHE_SIZE
    /\ query[T1] \notin CacheKeys(hist.snap)

\* C5: _set_cache on a cache of exactly RESULT_CACHE_SIZE entries with a new
\* key removes exactly one entry, one with the smallest timestamp, keeps
\* every other entry unchanged and leaves the new entry in the cache.
C5_EvictsExactlyTheOldest ==
    StoredIntoFullCache =>
        \E i \in 1..Len(hist.snap) :
            /\ \A j \in 1..Len(hist.snap) :
                  hist.snap[i].timestamp <= hist.snap[j].timestamp
            /\ hist.snap[i].key \notin CacheKeys(cache)
            /\ \A j \in 1..Len(hist.snap) :
                  j # i => \E k \in 1..Len(cache) : cache[k] = hist.snap[j]
            /\ Len(cache) = RESULT_CACHE_SIZE
            /\ \E k \in 1..Len(cache) :
                  cache[k] = [key |-> query[T1], results |-> result[T1],
                              timestamp |-> hist.stored]

\* the evicted entry was strictly older than another one
C5_Witness ==
    /\ StoredIntoFullCache
    /\ \E i, j \in 1..Len(hist.snap) :
          hist.snap[i].timestamp < hist.snap[j].timestamp

\* C6, as claimed: in every reachable state every entry of the cache is
\* younger than RESULT_CACHE_TTL_SECONDS.
C6_NoEntryOlderThanTtl ==
    \A i \in 1..Len(cache) :
        now - cache[i].timestamp < RESULT_CACHE_TTL_SECONDS

\* T1's call returned from the cache
ServedFromCache == pc[T1] = "done" /\ submitted[T1] = 0

\* C6, amended: an entry can stay in the cache beyond the TTL, but retrieve
\* returns a cached list only from an entry that is younger than
\* RESULT_CACHE_TTL_SECONDS when the call reads it.
C6_ServedEntriesYoungerThanTtl ==
    ServedFromCache =>
        /\ hist.entry_ts >= 0
        /\ hist.at - hist.entry_ts < RESULT_CACHE_TTL_SECONDS

\* a call is served from an entry one tick short of the TTL while another
\* entry of the cache is older than the TTL
C6_Witness ==
    /\ ServedFromCache
    /\ hist.at - hist.entry_ts = RESULT_CACHE_TTL_SECONDS - 1
    /\ \E i \in 1..Len(cache) :
          now - cache[i].timestamp >= RESULT_CACHE_TTL_SECONDS

(***************************************************************************)
(* Properties of concurrent callers (Spec).                                *)
(***************************************************************************)
\* C7: under every interleaving of concurrent retrieve calls the cache never
\* holds more than RESULT_CACHE_SIZE entries.
C7_CacheSizeBounded == Len(cache) <= RESULT_CACHE_SIZE

\* C8: the read-check-then-write sequences of the cache (lines 20-23 and
\* 27-30) exclude each other, so that under every interleaving no retrieve
\* call fails because another call has removed the entry it is about to
\* delete.
C8_NoCallFailsOnConcurrentDelete == \A t \in Threads : pc[t] # "raised"

(***************************************************************************)
(* Properties of the fan-out and fan-in of one call (FanSpec).             *)
(***************************************************************************)
\* T1's call has left the fan-in loop
Collected == pc[T1] \in {"rank", "truncate", "set_len", "set_ins"}

\* C9: whichever branches raise, retrieve does not raise; a failed branch
\* contributes an empty list, the lists of the other branches are merged,
\* ranked and returned, and when all four fail the returned list is empty.
C9_FailedBranchesAreEmpty ==
    /\ pc[T1] # "raised"
    /\ \A l \in failed[T1] :
          pc[T1] = "fanin" \/ Collected => search_results[T1][l] = <<>>
    /\ Collected =>
          \A l \in Labels \ failed[T1] :
              \A k \in 1..Len(search_results[T1][l]) :
                  \E i \in 1..Len(merged_docs[T1]) :
                      DocId(merged_docs[T1][i]) = DocId(search_results[T1][l][k])
    /\ pc[T1] \in {"set_len", "set_ins"} =>
          final_results[T1] = Pipeline(search_results[T1])
    /\ pc[T1] = "set_ins" /\ failed[T1] # Labels
           /\ (\E l \in Labels : search_results[T1][l] # <<>>)
          => final_results[T1] # <<>>
    /\ pc[T1] = "done" /\ failed[T1] = Labels => result[T1] = <<>>

\* three branches raised and the call returned the fourth branch's document
C9_Witness ==
    /\ pc[T1] = "done"
    /\ Cardinality(failed[T1]) = 3
    /\ result[T1] # <<>>

\* C10: a branch whose store call has run for more than the timeout is no
\* longer waited for, and its result is taken to be empty.
C10_HardTimeoutPerBranch ==
    \A l \in Labels :
        /\ futures[T1][l] = "pending" => ~IsLate(T1)
        /\ l \in late[T1] /\ Collected => search_results[T1][l] = <<>>

\* T1's call is between the submission of its searches and its return
Searching == pc[T1] \in {"fanin", "rank", "truncate", "set_len", "set_ins"}

\* T1's call found a fresh entry and returned it
HitReturned ==
    /\ pc[T1] = "done"
    /\ hist.entry_ts >= 0
    /\ hist.at - hist.entry_ts < RESULT_CACHE_TTL_SECONDS

\* C11: a cache-miss retrieve submits exactly four searches, one per label:
\* the vector search on documents, the vector search on hospital_faqs, the
\* keyword search filtered to type youtube and the unfiltered keyword search;
\* a future that has completed, with a list or with an exception, is never
\* submitted again; a cache-hit call submits none.
C11_FourSearchesOncePerMiss ==
    /\ [](Searching =>
            /\ submitted[T1] = 4
            /\ \A l \in Labels : futures[T1][l] # "none"
            /\ {Searches[l] : l \in {x \in Labels : futures[T1][x] # "none"}} =
                  {[method |-> "hybrid_search", table |-> "documents",
                    filter |-> "none"],
                   [method |-> "hybrid_search_faqs", table |-> "hospital_faqs",
                    filter |-> "none"],
                   [method |-> "keyword_search", table |-> "documents",
                    filter |-> "type=youtube"],
                   [method |-> "keyword_search", table |-> "documents",
                    filter |-> "none"]})
    /\ [](HitReturned =>
            /\ submitted[T1] = 0
            /\ \A l \in Labels : futures[T1][l] = "none")
    /\ [][\A l \in Labels :
            /\ futures[T1][l] = "done" => futures'[T1][l] # "pending"
            /\ submitted'[T1] > submitted[T1] => submitted[T1] = 0]_vars

\* a miss has submitted its four searches and stored their documents, and
\* the call after it was served from the cache
C11_Witness ==
    /\ HitReturned
    /\ hist.prev_stored >= 0
    /\ hist.prev_result # <<>>
    /\ result[T1] = hist.prev_result

(***************************************************************************)
(* Properties of the keyword extraction (KwSpec).                          *)
(***************************************************************************)
\* _extract_keywords has returned unique
Extracted == kw_pc = "returned"

\* pairwise distinct elements
Distinct(kws) == \A i, j \in 1..Len(kws) : kws[i] = kws[j] => i = j

\* C12, as claimed: for every non-empty query string the returned sequence
\* is non-empty, its elements are pairwise distinct and each has at least
\* two characters.
C12_NonEmptyDistinctAtLeastTwoChars ==
    Extracted /\ query_text # <<>> =>
        /\ unique # <<>>
        /\ Distinct(unique)
        /\ \A i \in 1..Len(unique) : Len(unique[i]) >= 2

\* C12, amended: the result is non-empty exactly when the query has a
\* token; when a token survives the filter the result is the distinct
\* survivors, each of at least two characters; when none survives it is the
\* (at most three) longest tokens as they are, short or repeated ones
\* included.
C12_NonEmptyWhenTokensExist ==
    Extracted =>
        /\ unique # <<>> <=> tokens # <<>>
        /\ keywords # <<>> =>
              /\ Distinct(unique)
              /\ \A i \in 1..Len(unique) : Len(unique[i]) >= 2
              /\ {unique[i] : i \in 1..Len(unique)} =
                    {keywords[i] : i \in 1..Len(keywords)}
        /\ keywords = <<>> =>
              /\ Len(unique) = (IF Len(tokens) < 3 THEN Len(tokens) ELSE 3)
              /\ \A i \in 1..Len(unique) :
                    /\ \E j \in 1..Len(tokens) : tokens[j] = unique[i]
                    /\ \A j \in 1..Len(tokens) :
                          Len(tokens[j]) > Len(unique[i]) =>
                              \E k \in 1..Len(unique) : unique[k] = tokens[j]

\* two tokens gave the same keyword and it is returned once
C12_Witness ==
    /\ Extracted
    /\ Len(keywords) = 2
    /\ Len(unique) = 1
    /\ Len(unique[1]) >= 2

\* C13, as claimed: for every query no returned keyword is a stopword.
C13_NoStopwordReturned ==
    Extracted => \A i \in 1..Len(unique) : unique[i] \notin STOPWORDS

\* C13, amended: when a token survives the filter no returned keyword is a
\* stopword (a stopword token is discarded, and a token whose stripped form
\* is a stopword is returned unstripped); when none survives, the returned
\* keywords are tokens of the query, stopwords among them.
C13_NoStopwordAmongSurvivors ==
    Extracted =>
        /\ keywords # <<>> =>
              \A i \in 1..Len(unique) : unique[i] \notin STOPWORDS
        /\ keywords = <<>> =>
              \A i \in 1..Len(unique) :
                  \E j \in 1..Len(tokens) : tokens[j] = unique[i]

\* a stopword token was discarded, and a token whose stripped form is a
\* stopword was returned as it is
C13_Witness ==
    /\ Extracted
    /\ \E j \in 1..Len(tokens) : tokens[j] \in STOPWORDS
    /\ \E i \in 1..Len(unique) :
          /\ StripParticles(unique[i]) \in STOPWORDS
          /\ unique[i] \notin STOPWORDS

(***************************************************************************)
(* Properties of the /chat response (ChatSpec, CurateSpec).                *)
(***************************************************************************)
\* the response holds a citation list
Cited == \E i \in 1..Len(out) : out[i] = "__SOURCES__"

\* a streamed chunk marked the answer as a knowledge-fallback response
MarkedFallback == \E i \in 1..Len(out) : StartsWithMarker(out[i])

\* C14: a citation list is in the response only if the resolved category
\* is not "general", no streamed chunk carried the fallback marker, and
\* retrieve returned at least one document
C14_CitationsOnlyWhenGateHolds ==
    Cited => /\ final_category # "general"
             /\ ~MarkedFallback
             /\ context_docs # <<>>

\* a finished response with a citation list, the category resolved by the
\* classifier
C14_Witness ==
    /\ chat_pc = "done"
    /\ Cited
    /\ request.category = "auto"

\* the citations of list that are videos
Videos(list) == SelectSeq(list, LAMBDA meta : IsYoutube(meta.source))

\* the title holds a term of the sequence terms, spaces and case aside
HoldsTerm(title, terms) ==
    \E i \in 1..Len(terms) : Contains(Norm(terms[i]), Norm(title))

\* the citations of list that the object named by origin supplied
From(list, origin) == SelectSeq(list, LAMBDA meta : meta.origin = origin)

\* C15: for category "cancer" or "nerve", no video citation, from the
\* context documents, the category supplement or the keyword supplement,
\* has a title holding an exclusion term of the category
C15_NoExcludedVideoCited ==
    final_category \in {"cancer", "nerve"} =>
        \A i \in 1..Len(Videos(other_sources \o yt_sources \o sources)) :
            ~HoldsTerm(Videos(other_sources \o yt_sources \o sources)[i].title,
                       CATEGORY_EXCLUDE_KEYWORDS[final_category])

\* a final list for category "cancer" with a video of the category
\* supplement and one of the keyword supplement, while a context video
\* whose title holds both a search term and an exclusion term is not cited
C15_Witness ==
    /\ chat_pc = "emit"
    /\ final_category = "cancer"
    /\ From(Videos(sources), "category") # <<>>
    /\ From(Videos(sources), "keyword") # <<>>
    /\ \E i \in 1..Len(context_docs) :
          LET metadata == context_docs[i].metadata
          IN /\ metadata.form = "dict"
             /\ IsYoutube(metadata.source)
             /\ HoldsTerm(metadata.title, search_keywords)
             /\ HoldsTerm(metadata.title, CATEGORY_EXCLUDE_KEYWORDS["cancer"])

\* C16: every video citation of the final list has a title that holds at
\* least one of the expanded search terms of the query, also when no
\* keyword is extracted from the query
C16_EveryVideoHoldsSearchTerm ==
    \A i \in 1..Len(Videos(sources)) :
        HoldsTerm(Videos(sources)[i].title,
                  SearchKeywords(request.query, synonyms))

\* the non-empty, non-video source URL of a context document's metadata,
\* "" if it has none
PageUrl(doc) ==
    IF /\ ParseMeta(doc.metadata).form = "dict"
       /\ ~IsYoutube(ParseMeta(doc.metadata).source)
    THEN ParseMeta(doc.metadata).source
    ELSE ""

\* the metadata of the first n context documents that have such a URL and
\* are the first to carry it, in the order of the documents
RECURSIVE FirstCarriers(_, _)
FirstCarriers(docs, n) ==
    IF n = 0 THEN <<>>
    ELSE IF /\ PageUrl(docs[n]) # ""
            /\ \A j \in 1..(n - 1) : PageUrl(docs[j]) # PageUrl(docs[n])
         THEN Append(FirstCarriers(docs, n - 1), ParseMeta(docs[n].metadata))
         ELSE FirstCarriers(docs, n - 1)

\* the citations of list that are no videos
Pages(list) == SelectSeq(list, LAMBDA meta : ~IsYoutube(meta.source))

C18_NoRawRetrievalError == \A t \in Threads : pc[t] # "error"

\* the response holds a chunk of the answer
Answering ==
    \E i \in 1..Len(out) :
        out[i] \in {"text", "marked_text", "prefix", "warning", "no_info",
                    "disclaimer", "fallback_disclaimer", "blocked", "gen_error"}

\* C19: retrieval and classification are started together as two tasks,
\* no chunk of the answer is produced before both have completed, and
\* retrieve is invoked once per request and never again
C19_AnswerAfterBothTasksOneRetrieve ==
    /\ [](retrieval_task = "none" <=> classification_task = "none")
    /\ [](Answering => retrieval_task = "done" /\ classification_task = "done")
    /\ [](chat_pc \in {"idle", "start"} => retrieve_calls = 0)
    /\ [](chat_pc \notin {"idle", "start"} => retrieve_calls = 1)
    /\ [][retrieval_task # "none" => retrieve_calls' = retrieve_calls]_vars

\* the first chunk of the answer has just been produced, after both tasks
\* and the one call of retrieve
C19_Witness ==
    /\ chat_pc = "stream"
    /\ Len(out) = 1
    /\ Answering
    /\ retrieve_calls = 1
    /\ stream # <<>>

\* the metadata is a string that does not parse to a key-value mapping
Unparseable(raw) == raw.form \in {"json_invalid", "json_array", "json_null"}

\* C20: when a context document's metadata is a string that does not
\* parse to a key-value mapping, curation goes on with the remaining
\* documents and the request does not end in an error
C20_UnparseableMetadataIsSkipped ==
    (\E i \in 1..Len(context_docs) : Unparseable(context_docs[i].metadata))
        => chat_pc # "error"

(***************************************************************************)
(* Further properties of the truncation and the ranking (MergeSpec).       *)
(***************************************************************************)
\* the first n documents of the ranked list can all be returned: they are
\* at most MAX_CONTEXT_DOCS and their content is within MAX_CONTEXT_CHARS
Fits(n) ==
    /\ n <= MAX_CONTEXT_DOCS
    /\ SumLen(SubSeq(ranked[T1], 1, n)) <= MAX_CONTEXT_CHARS

\* C21: the list of a cache miss is a prefix of the ranked list; it ends
\* before the first ranked document that would push the accumulated length
\* above MAX_CONTEXT_CHARS or would be the (MAX_CONTEXT_DOCS+1)-th, and no
\* document ranked after that one is returned
C21_ReturnedListIsPrefixToCutoff ==
    Truncated =>
        LET f == final_results[T1] IN
        /\ Len(f) <= Len(ranked[T1])
        /\ f = SubSeq(ranked[T1], 1, Len(f))
        /\ Fits(Len(f))
        /\ Len(f) < Len(ranked[T1]) => ~Fits(Len(f) + 1)

\* the second ranked document exceeds the character budget, and the third
\* is left out although it fits the budget the first one leaves
C21_Witness ==
    /\ Truncated
    /\ Len(ranked[T1]) = 3
    /\ Len(final_results[T1]) = 1
    /\ MAX_CONTEXT_DOCS > 1
    /\ ContentLen(ranked[T1][1].content) + ContentLen(ranked[T1][3].content)
           <= MAX_CONTEXT_CHARS

\* the place of a branch in the merge order: 1 for the curated FAQ vector
\* search, then video keyword, primary vector, general keyword
Priority(l) == CHOOSE n \in 1..Len(SourceOrder) : SourceOrder[n] = l

\* the branch lists are such as the store adapter returns them: each row
\* once per list; the keyword lists carry the row's id and are sorted by
\* score (supabase_client.py:248, 274), and a row has one score for one
\* query; a row of the documents table has one content; the rows of the
\* hospital_faqs table are no rows of the documents table
StoreLike(sr) ==
    /\ \A l \in Labels : \A i, j \in 1..Len(sr[l]) :
          DocId(sr[l][i]) = DocId(sr[l][j]) => i = j
    /\ \A l \in {"youtube_kw", "general_kw"} :
          /\ \A i \in 1..Len(sr[l]) : sr[l][i].id # 0
          /\ \A i \in 1..(Len(sr[l]) - 1) :
                sr[l][i].similarity >= sr[l][i + 1].similarity
    /\ \A i \in 1..Len(sr["youtube_kw"]) : \A j \in 1..Len(sr["general_kw"]) :
          sr["youtube_kw"][i].id = sr["general_kw"][j].id
              => sr["youtube_kw"][i].similarity = sr["general_kw"][j].similarity
    /\ \A k, l \in {"youtube_kw", "general_kw", "docs_vector"} :
          \A i \in 1..Len(sr[k]) : \A j \in 1..Len(sr[l]) :
              DocId(sr[k][i]) = DocId(sr[l][j])
                  => sr[k][i].content = sr[l][j].content
    /\ \A l \in Labels \ {"faqs_vector"} :
          \A i \in 1..Len(sr["faqs_vector"]) : \A j \in 1..Len(sr[l]) :
              DocId(sr["faqs_vector"][i]) # DocId(sr[l][j])

FirstMet(k) ==
    CHOOSE n \in 1..Len(Candidates) :
        /\ DocId(Candidates[n]) = k
        /\ \A m \in 1..(n - 1) : DocId(Candidates[m]) # k

ReturnsAtOnce == pc[T1] \in {"idle", "done", "error"} /\ pc'[T1] = "done"

\* the key _set_cache is about to delete holds the least timestamp
EvictsLeastTimestamp ==
    pc[T1] = "set_del" =>
        \A i \in 1..Len(cache) :
            CacheGet(cache, oldest_key[T1]).timestamp <= cache[i].timestamp

\* C23: a cache hit changes neither the keys of the cache nor any entry's
\* timestamp, and the entry evicted from a full cache is one of least
\* timestamp, however recently it was read.
C23_HitLeavesCacheUnchanged ==
    /\ [][ReturnsAtOnce => cache' = cache]_vars
    /\ []EvictsLeastTimestamp

\* the entry about to be evicted is the one the previous call read, while
\* the entry that stays was stored before that read and not read since
C23_Witness ==
    /\ pc[T1] = "set_del"
    /\ hist.prev_stored = -1
    /\ hist.prev_query = oldest_key[T1]
    /\ \E i \in 1..Len(cache) :
          /\ cache[i].key # oldest_key[T1]
          /\ cache[i].timestamp > CacheGet(cache, oldest_key[T1]).timestamp

\* T1's call found, on entry, an entry of its query that was at least
\* RESULT_CACHE_TTL_SECONDS old
EnteredOnExpired ==
    /\ pc[T1] \notin {"idle", "error"}
    /\ hist.entry_ts >= 0
    /\ hist.at - hist.entry_ts >= RESULT_CACHE_TTL_SECONDS

\* C24: a call that finds an entry of age RESULT_CACHE_TTL_SECONDS or more
\* does not return it: the entry is removed before the searches, the four
\* searches are issued, and when the call returns the cache holds an entry
\* of the query stamped with the time of the store.
C24_ExpiredEntryIsRemovedAndReplaced ==
    EnteredOnExpired =>
        /\ pc[T1] \in {"search", "set_len", "set_min", "set_del", "set_ins"}
              => query[T1] \notin CacheKeys(cache)
        /\ pc[T1] \in {"set_len", "set_min", "set_del", "set_ins", "done"}
              => submitted[T1] = Cardinality(Labels)
        /\ pc[T1] = "done" =>
              /\ hist.stored >= hist.at
              /\ CacheGet(cache, query[T1]).timestamp = hist.stored
              /\ CacheGet(cache, query[T1]).results = result[T1]

\* such a call has returned: the old entry had a non-empty list, the new
\* one is stamped later than the old one
C24_Witness ==
    /\ EnteredOnExpired
    /\ pc[T1] = "done"
    /\ hist.prev_query = query[T1]
    /\ hist.prev_result # <<>>
    /\ CacheGet(cache, query[T1]).timestamp > hist.entry_ts

(***************************************************************************)
(* Further properties of the citation list (CurateSpec).                   *)
(***************************************************************************)
\* C25: the context being a list retrieve returned (at most
\* MAX_CONTEXT_DOCS documents), the video citations collected so far and
\* those of the final list are never more than MAX_YT, the three loops
\* taken together.
C25_AtMostMaxYtVideos ==
    Len(context_docs) <= MAX_CONTEXT_DOCS =>
        /\ Len(yt_sources) <= MAX_YT
        /\ Len(Videos(sources)) <= MAX_YT

\* a final list of MAX_YT videos, the first from the context and the last
\* from a supplement, for a query that has search terms
C25_Witness ==
    /\ chat_pc = "emit"
    /\ search_keywords # <<>>
    /\ Len(Videos(sources)) = MAX_YT
    /\ Videos(sources)[1].origin = "context"
    /\ Videos(sources)[MAX_YT].origin = "category"

(***************************************************************************)
(* Relevance of what retrieve returns (ChatSpec).                          *)
(***************************************************************************)
\* every document has a score its branch can give it: a keyword branch
\* keeps scores of 0.3 and more, a vector branch of a store that honours
\* match_threshold gives scores above SIMILARITY_THRESHOLD
StoreHonoursThreshold(docs) ==
    \A i \in 1..Len(docs) :
        ScoreKept(docs[i].similarity) \/ docs[i].similarity > SIMILARITY_THRESHOLD

\* the knowledge fallback of generator.py:283-288 has been generated
FallbackGenerated ==
    \E i \in 1..Len(out \o stream) : (out \o stream)[i] = "prefix"

\* C26: with such a store a non-empty list of retrieve passes
\* check_relevance, and for a category other than general the knowledge
\* fallback is generated only for an empty list.
C26_NonEmptyContextIsRelevant ==
    StoreHonoursThreshold(context_docs) =>
        /\ context_docs # <<>> => CheckRelevance(context_docs)
        /\ final_category # "general" /\ FallbackGenerated
              => context_docs = <<>>

\* an answer from the context whose only document has the least score a
\* keyword branch keeps, below SIMILARITY_THRESHOLD
C26_Witness ==
    /\ Len(context_docs) = 1
    /\ StoreHonoursThreshold(context_docs)
    /\ context_docs[1].similarity < SIMILARITY_THRESHOLD
    /\ final_category # "general"
    /\ Len(out) > 0
    /\ out[1] = "text"

(***************************************************************************)
(* Further properties of the cache of one caller (SeqSpec).                *)
(***************************************************************************)
\* C27: a call whose four branches all failed stores its empty list like
\* any other result, and a call of the same query that starts less than
\* RESULT_CACHE_TTL_SECONDS after that store returns the empty list from
\* the cache and submits no search.
C27_FailedSearchIsCachedToo ==
    /\ pc[T1] = "done" /\ failed[T1] = Labels =>
          /\ result[T1] = <<>>
          /\ CacheGet(cache, query[T1]) = [results |-> <<>>, timestamp |-> hist.stored]
    /\ RepeatsWithinTtl /\ hist.prev_failed = Labels =>
          /\ pc[T1] = "done"
          /\ result[T1] = <<>>
          /\ submitted[T1] = 0

\* such a second call, one tick after the failed one stored its list
C27_Witness ==
    /\ RepeatsWithinTtl
    /\ hist.prev_failed = Labels
    /\ hist.at > hist.prev_stored
    /\ pc[T1] = "done"
    /\ result[T1] = <<>>

\* C28: the cache is keyed by the query alone: a call retrieve(q, k2) that
\* starts less than RESULT_CACHE_TTL_SECONDS after retrieve(q, k1) stored
\* its list returns that list whole, whatever k1 and k2, and submits no
\* search; the entry stays as the first call wrote it.
C28_CachedListIgnoresK ==
    RepeatsWithinTtl =>
        /\ submitted[T1] = 0
        /\ result[T1] = hist.prev_result
        /\ CacheGet(cache, query[T1]) =
               [results |-> hist.prev_result, timestamp |-> hist.prev_stored]

\* a call with k = 1 that returned the list of a call with a larger k: it
\* holds more documents of one branch than a search with k = 1 returns
C28_Witness ==
    /\ RepeatsWithinTtl
    /\ pc[T1] = "done"
    /\ call_k[T1] = 1
    /\ hist.prev_k > 1
    /\ Cardinality({i \in 1..Len(result[T1]) :
                       result[T1][i].src = "faqs_vector"}) > call_k[T1]

(***************************************************************************)
(* Distinct citations (CurateSpec).                                        *)
(***************************************************************************)
\* no two elements of list carry the same source URL
DistinctUrls(list) ==
    \A i, j \in 1..Len(list) : i # j => list[i].source # list[j].source

\* C29: the citations collected so far, and those of the final list, have
\* pairwise distinct source URLs, pages and videos of the three loops taken
\* together.
C29_CitationUrlsDistinct ==
    /\ DistinctUrls(other_sources \o yt_sources)
    /\ DistinctUrls(sources)

\* a final list with a video of the context and a video of the keyword
\* supplement, for a context whose two documents carry one URL
C29_Witness ==
    /\ chat_pc = "emit"
    /\ Len(context_docs) = 2
    /\ context_docs[1].metadata.source = context_docs[2].metadata.source
    /\ From(Videos(sources), "keyword") # <<>>
    /\ Len(sources) = 2

(***************************************************************************)
(* Curation after a refusal (ChatSpec).                                    *)
(***************************************************************************)
\* the answer began with the refusal warning of generator.py:278-280
Refused == out # <<>> /\ out[1] = "warning"

\* the stream is over and the request leaves the gate of line 170
LeavesGate == chat_pc = "stream" /\ stream = <<>> /\ chat_pc' # "stream"

\* C30: after a refusal warning the gate of the curation is the same as
\* after any answer: the request goes on to collect citations exactly when
\* the category is not general and the context is not empty; the warning
\* is the only chunk and does not mark the answer as a fallback.
C30_CurationRunsAfterRefusal ==
    /\ [][Refused /\ LeavesGate =>
             /\ out = <<"warning">>
             /\ ~is_fallback
             /\ chat_pc' = "collect" <=>
                    (context_docs # <<>> /\ final_category # "general")]_vars
    /\ [](Refused => CheckMedicalQuery(request.query))

\* a response that holds the refusal warning and then a citation list
C30_Witness ==
    /\ Refused
    /\ out[Len(out)] = "__SOURCES__"
    /\ sources # <<>>

====
